---- MODULE Spec2Model ----
(***************************************************************************)
(* ReserveMe AI search backend (src/index.js).                             *)
(*                                                                         *)
(* State: the intent cache AI_QUERY_CACHE, the single-slot aggregation     *)
(* cache RESTAURANT_CACHE, the persisted restaurants_search collection,    *)
(* the source collections of the document store, the wall clock, and the   *)
(* position and locals of every in-flight POST /ai-search request and of   *)
(* every in-flight loadAllCollectionsByUserId call.                        *)
(*                                                                         *)
(* Text is modelled as a sequence of one-character strings, so that        *)
(* toLowerCase, trim, includes and the regular expressions are computed    *)
(* and not assumed.  JavaScript values are tagged records.                  *)
(***************************************************************************)
EXTENDS Integers, Sequences, FiniteSets, TLC

----------------------------------------------------------------------------
(* Bounds of the model. *)

\* concurrent POST /ai-search requests
NumReqs == 2
\* documents in the large sample of restaurants_search (more than the cap)
BigIndexLen == 52
\* clock advances in a behaviour of the loader
MaxTicks == 3
\* concurrent loadAllCollectionsByUserId calls
NumTasks == 2

----------------------------------------------------------------------------
(* Text: sequences of characters. *)

WhiteSpace == {" ", "\t"}

Digits == {"0", "1", "2", "3", "4", "5", "6", "7", "8", "9"}

DigitValue ==
  ("0" :> 0) @@ ("1" :> 1) @@ ("2" :> 2) @@ ("3" :> 3) @@ ("4" :> 4) @@
  ("5" :> 5) @@ ("6" :> 6) @@ ("7" :> 7) @@ ("8" :> 8) @@ ("9" :> 9)

DigitChar == <<"0", "1", "2", "3", "4", "5", "6", "7", "8", "9">>

LowerOf ==
  ("A" :> "a") @@ ("B" :> "b") @@ ("C" :> "c") @@ ("D" :> "d") @@
  ("E" :> "e") @@ ("F" :> "f") @@ ("G" :> "g") @@ ("H" :> "h") @@
  ("I" :> "i") @@ ("J" :> "j") @@ ("K" :> "k") @@ ("L" :> "l") @@
  ("M" :> "m") @@ ("N" :> "n") @@ ("O" :> "o") @@ ("P" :> "p") @@
  ("Q" :> "q") @@ ("R" :> "r") @@ ("S" :> "s") @@ ("T" :> "t") @@
  ("U" :> "u") @@ ("V" :> "v") @@ ("W" :> "w") @@ ("X" :> "x") @@
  ("Y" :> "y") @@ ("Z" :> "z")

UpperLetters == DOMAIN LowerOf

LowerLetters == {LowerOf[c] : c \in UpperLetters}

\* \w of a JavaScript regular expression
WordChars == UpperLetters \cup LowerLetters \cup Digits \cup {"_"}

\* String.prototype.toLowerCase
toLowerCase(s) ==
  [i \in 1..Len(s) |-> IF s[i] \in UpperLetters THEN LowerOf[s[i]] ELSE s[i]]

RECURSIVE trimStart(_)
trimStart(s) ==
  IF s # <<>> /\ Head(s) \in WhiteSpace THEN trimStart(Tail(s)) ELSE s

RECURSIVE trimEnd(_)
trimEnd(s) ==
  IF s # <<>> /\ s[Len(s)] \in WhiteSpace
  THEN trimEnd(SubSeq(s, 1, Len(s) - 1))
  ELSE s

\* String.prototype.trim
trim(s) == trimEnd(trimStart(s))

\* String.prototype.includes
includes(s, t) ==
  \E i \in 0..(Len(s) - Len(t)) : SubSeq(s, i + 1, i + Len(t)) = t

\* .replace(/_/g, " ")
replaceUnderscores(s) ==
  [i \in 1..Len(s) |-> IF s[i] = "_" THEN " " ELSE s[i]]

RECURSIVE join(_, _)
\* Array.prototype.join over an array of strings
join(a, sep) ==
  IF a = <<>> THEN <<>>
  ELSE IF Len(a) = 1 THEN a[1]
  ELSE a[1] \o sep \o join(Tail(a), sep)

RECURSIVE NatToText(_)
NatToText(n) ==
  IF n < 10 THEN <<DigitChar[n + 1]>>
  ELSE NatToText(n \div 10) \o <<DigitChar[(n % 10) + 1]>>

\* the decimal text of an integer, as String(n) and JSON.stringify(n) give it
IntToText(n) == IF n < 0 THEN <<"-">> \o NatToText(0 - n) ELSE NatToText(n)

RECURSIVE TextToNat(_)
TextToNat(s) ==
  IF s = <<>> THEN 0
  ELSE 10 * TextToNat(SubSeq(s, 1, Len(s) - 1)) + DigitValue[s[Len(s)]]

----------------------------------------------------------------------------
(* JavaScript values. *)

Undefined == [t |-> "undefined"]
Null == [t |-> "null"]
NaN == [t |-> "NaN"]
Num(n) == [t |-> "number", v |-> n]
Str(s) == [t |-> "string", v |-> s]
Arr(a) == [t |-> "array", v |-> a]
Obj(o) == [t |-> "object", v |-> o]

EmptyObject == Obj(<<>>)

\* ToBoolean
Truthy(x) ==
  CASE x.t = "undefined" -> FALSE
    [] x.t = "null" -> FALSE
    [] x.t = "NaN" -> FALSE
    [] x.t = "number" -> x.v # 0
    [] x.t = "string" -> x.v # <<>>
    [] OTHER -> TRUE

\* a || b
Or(a, b) == IF Truthy(a) THEN a ELSE b

IsDecimal(s) ==
  /\ s # <<>>
  /\ \A i \in 1..Len(s) : s[i] \in Digits

\* Number(String) on trimmed text: the empty text is 0, a decimal literal its
\* value, anything else NaN
TextToNumber(s) ==
  IF s = <<>> THEN Num(0)
  ELSE IF IsDecimal(s) THEN Num(TextToNat(s))
  ELSE IF Head(s) = "-" /\ IsDecimal(Tail(s)) THEN Num(0 - TextToNat(Tail(s)))
  ELSE NaN

\* String(x) of a primitive
PrimToText(x) ==
  CASE x.t = "string" -> x.v
    [] x.t = "number" -> IntToText(x.v)
    [] x.t = "NaN" -> <<"N", "a", "N">>
    [] x.t = "null" -> <<"n", "u", "l", "l">>
    [] x.t = "undefined" ->
         <<"u", "n", "d", "e", "f", "i", "n", "e", "d">>
    [] OTHER -> <<"[", "o", "b", "j", "e", "c", "t", " ",
                  "O", "b", "j", "e", "c", "t", "]">>

\* an array element inside Array.prototype.toString: null and undefined are
\* the empty text
ElemToText(x) ==
  IF x.t \in {"null", "undefined"} THEN <<>> ELSE PrimToText(x)

\* String(x)
ToText(x) ==
  IF x.t = "array"
  THEN join([i \in 1..Len(x.v) |-> ElemToText(x.v[i])], <<",">>)
  ELSE PrimToText(x)

\* Number(x)
ToNumber(x) ==
  CASE x.t = "number" -> x
    [] x.t = "NaN" -> NaN
    [] x.t = "null" -> Num(0)
    [] x.t = "undefined" -> NaN
    [] x.t = "string" -> TextToNumber(trim(x.v))
    [] x.t = "array" -> TextToNumber(trim(ToText(x)))
    [] OTHER -> NaN

\* property access obj.f on a plain object: undefined when absent
Get(o, f) == IF f \in DOMAIN o THEN o[f] ELSE Undefined

----------------------------------------------------------------------------
(* Helpers of src/index.js. *)

\* const normalize = (s) => s ? String(s).toLowerCase().trim().replace(/_/g, " ") : ""
normalize(s) ==
  IF Truthy(s) THEN replaceUnderscores(trim(toLowerCase(ToText(s)))) ELSE <<>>

(* The text a completion returns, as a sequence of lexical pieces: an opening *)
(* brace, a closing brace, the well-formed member list of an object literal,  *)
(* a JSON literal that is not an object (null, a number, a string, an array), *)
(* or a stretch of prose that is no JSON.                                     *)
LBrace == [k |-> "{"]
RBrace == [k |-> "}"]
Prose == [k |-> "prose"]
Members(m) == [k |-> "members", v |-> m]
Literal(x) == [k |-> "literal", v |-> x]

\* JSON.parse: ok is FALSE where it throws SyntaxError
JSONparse(text) ==
  IF Len(text) = 1 /\ text[1].k = "literal"
  THEN [ok |-> TRUE, value |-> text[1].v]
  ELSE IF Len(text) = 2 /\ text[1] = LBrace /\ text[2] = RBrace
  THEN [ok |-> TRUE, value |-> EmptyObject]
  ELSE IF Len(text) = 3 /\ text[1] = LBrace /\ text[2].k = "members"
          /\ text[3] = RBrace
  THEN [ok |-> TRUE, value |-> Obj(text[2].v)]
  ELSE [ok |-> FALSE, value |-> Undefined]

SetMin(S) == CHOOSE x \in S : \A y \in S : x <= y
SetMax(S) == CHOOSE x \in S : \A y \in S : x >= y

\* maybe.match(/{[\s\S]*}/): the greedy match from the first opening brace to
\* the last closing brace, as a sequence of zero or one matches
matchBraces(text) ==
  LET opens == {i \in 1..Len(text) : text[i] = LBrace}
      closes == {i \in 1..Len(text) : text[i] = RBrace}
  IN IF opens # {} /\ closes # {} /\ SetMin(opens) < SetMax(closes)
     THEN <<SubSeq(text, SetMin(opens), SetMax(closes))>>
     ELSE <<>>

\* function safeParseJSON(maybe)
safeParseJSON(maybe) ==
  IF ~Truthy(maybe) \/ maybe.t # "string" THEN EmptyObject
  ELSE IF JSONparse(maybe.v).ok THEN JSONparse(maybe.v).value
  ELSE LET match == matchBraces(maybe.v)
       IN IF match # <<>> /\ JSONparse(match[1]).ok
          THEN JSONparse(match[1]).value
          ELSE EmptyObject

PeopleWords == {
  <<"p", "e", "o", "p", "l", "e">>,
  <<"p", "e", "r", "s", "o", "n", "s">>,
  <<"g", "u", "e", "s", "t", "s">>,
  <<"p", "a", "x">>}

IsWordAt(s, i) == i >= 1 /\ i <= Len(s) /\ s[i] \in WordChars

\* \b between positions i and i + 1 of s
WordBoundary(s, i) == IsWordAt(s, i) # IsWordAt(s, i + 1)

\* /\b(\d{1,2})\s*(people|persons|guests|pax)\b/i matches at position i with nd
\* digits, w white-space characters and the word
PeopleMatchAt(s, i, nd, w, word) ==
  LET e == i + nd + w + Len(word) - 1
  IN /\ e <= Len(s)
     /\ WordBoundary(s, i - 1)
     /\ \A j \in i..(i + nd - 1) : s[j] \in Digits
     /\ \A j \in (i + nd)..(i + nd + w - 1) : s[j] \in WhiteSpace
     /\ toLowerCase(SubSeq(s, i + nd + w, e)) = word
     /\ WordBoundary(s, e)

\* function extractPeopleFromText(text): the leftmost match's number, or null
extractPeopleFromText(text) ==
  LET M == {m \in (1..Len(text)) \X (1..2) :
              \E w \in 0..Len(text) : \E word \in PeopleWords :
                PeopleMatchAt(text, m[1], m[2], w, word)}
  IN IF M = {} THEN Null
     ELSE LET i == SetMin({m[1] : m \in M})
              nd == SetMax({m[2] : m \in {x \in M : x[1] = i}})
          IN Num(TextToNat(SubSeq(text, i, i + nd - 1)))

\* keywords left as the completion gave them
keywordsAsGiven(keywords) == keywords

\* Array.isArray(keywords) ? keywords
\*   : typeof keywords === "string" && keywords.trim() ? [keywords.trim()] : []
normalizeKeywords(keywords) ==
  IF keywords.t = "array" THEN keywords
  ELSE IF keywords.t = "string" /\ trim(keywords.v) # <<>>
  THEN Arr(<<Str(trim(keywords.v))>>)
  ELSE Arr(<<>>)

\* reading a property of x throws TypeError
ReadThrows(x) == x.t \in {"null", "undefined"}

\* x.f, of a value whose properties can be read
Prop(x, f) == IF x.t = "object" THEN Get(x.v, f) ELSE Undefined

\* the intent of the miss path: normalize, Number(..) || null, the people
\* fallback on the query text, the keywords coerced to an array
deriveIntent(intent, query) ==
  [place |-> normalize(Prop(intent, "place")),
   cuisine |-> normalize(Prop(intent, "cuisine")),
   vibe |-> normalize(Prop(intent, "vibe")),
   maxBudget |-> Or(ToNumber(Prop(intent, "maxBudget")), Null),
   people |-> Or(ToNumber(Prop(intent, "people")),
                 Or(extractPeopleFromText(query), Null)),
   keywords |-> normalizeKeywords(Or(Prop(intent, "keywords"), Arr(<<>>)))]

----------------------------------------------------------------------------
(* Search documents and their serialisation. *)

Quote(s) == <<"\"">> \o s \o <<"\"">>

QuoteAll(a) == [i \in 1..Len(a) |-> Quote(a[i])]

TextArray(a) == <<"[">> \o join(QuoteAll(a), <<",">>) \o <<"]">>

\* JSON.stringify(p) of a restaurants_search document
stringify(p) ==
  <<"{">>
  \o Quote(<<"r", "e", "s", "t", "a", "u", "r", "a", "n", "t", "I", "d">>) \o <<":">> \o Quote(p.restaurantId)
  \o <<",">> \o Quote(<<"r", "e", "s", "t", "a", "u", "r", "a", "n", "t", "N", "a", "m", "e">>) \o <<":">>
  \o Quote(p.restaurantName)
  \o <<",">> \o Quote(<<"l", "o", "c", "a", "t", "i", "o", "n">>) \o <<":">> \o Quote(p.location)
  \o <<",">> \o Quote(<<"c", "u", "i", "s", "i", "n", "e", "s">>) \o <<":">> \o TextArray(p.cuisines)
  \o <<",">> \o Quote(<<"a", "v", "e", "r", "a", "g", "e", "C", "o", "s", "t">>) \o <<":">>
  \o IntToText(p.averageCost)
  \o <<",">> \o Quote(<<"m", "a", "x", "S", "e", "a", "t", "s">>) \o <<":">> \o IntToText(p.maxSeats)
  \o <<",">> \o Quote(<<"i", "m", "a", "g", "e">>) \o <<":">> \o Quote(p.image)
  \o <<",">> \o Quote(<<"a", "m", "e", "n", "i", "t", "i", "e", "s">>) \o <<":">> \o TextArray(p.amenities)
  \o <<",">> \o Quote(<<"v", "i", "b", "e", "s">>) \o <<":">> \o TextArray(p.vibes)
  \o <<",">> \o Quote(<<"u", "p", "d", "a", "t", "e", "d", "A", "t">>) \o <<":">> \o <<"{">>
  \o Quote(<<"_", "s", "e", "c", "o", "n", "d", "s">>) \o <<":">> \o IntToText(p.updatedAt)
  \o <<",">> \o Quote(<<"_", "n", "a", "n", "o", "s", "e", "c", "o", "n", "d", "s">>) \o <<":">> \o <<"0">>
  \o <<"}">> \o <<"}">>

----------------------------------------------------------------------------
(* The filter chains of POST /ai-search. *)

\* restaurants: candidates.slice(0, 50)
ResultCap == 50

\* keywords.map(k => k.toLowerCase()) throws TypeError on an element that is
\* not a string; it is only reached when keywords.length is not 0
keywordsThrow(keywords) ==
  /\ keywords.v # <<>>
  /\ \E i \in 1..Len(keywords.v) : keywords.v[i].t # "string"

\* lines 434-437: if (place) candidates = candidates.filter(...)
missPlace(candidates, place) ==
  LET keep(r) == includes(toLowerCase(r.location), toLowerCase(place))
  IN IF place # <<>> THEN SelectSeq(candidates, keep) ELSE candidates

\* lines 439-444
missCuisine(candidates, cuisine) ==
  LET keep(r) ==
        \E i \in 1..Len(r.cuisines) :
          includes(toLowerCase(r.cuisines[i]), toLowerCase(cuisine))
  IN IF cuisine # <<>> THEN SelectSeq(candidates, keep) ELSE candidates

\* a budget filter that excludes a cost equal to the budget
missBudgetStrict(candidates, maxBudget) ==
  LET keep(r) == r.averageCost < maxBudget.v
  IN IF Truthy(maxBudget) THEN SelectSeq(candidates, keep) ELSE candidates

\* lines 446-448
missBudget(candidates, maxBudget) ==
  LET keep(r) == r.averageCost <= maxBudget.v
  IN IF Truthy(maxBudget) THEN SelectSeq(candidates, keep) ELSE candidates

\* lines 450-452
missPeople(candidates, people) ==
  LET keep(r) == r.maxSeats >= people.v
  IN IF Truthy(people) THEN SelectSeq(candidates, keep) ELSE candidates

\* lines 454-459
missVibe(candidates, vibe) ==
  LET keep(r) ==
        includes(toLowerCase(join(r.vibes \o r.amenities, <<" ">>)),
                 toLowerCase(vibe))
  IN IF vibe # <<>> THEN SelectSeq(candidates, keep) ELSE candidates

\* lines 461-467
missKeywords(candidates, keywords) ==
  LET keep(p) ==
        \E i \in 1..Len(keywords.v) :
          includes(toLowerCase(stringify(p)), toLowerCase(keywords.v[i].v))
  IN IF keywords.v # <<>> THEN SelectSeq(candidates, keep) ELSE candidates

\* the filters of the cache-miss path, in the order of the code
missFilters(snap, place, cuisine, vibe, maxBudget, people, keywords) ==
  missKeywords(
    missVibe(
      missPeople(
        missBudget(missCuisine(missPlace(snap, place), cuisine), maxBudget),
        people),
      vibe),
    keywords)

\* lines 319-323
hitPlace(candidates, place) ==
  LET keep(r) == includes(toLowerCase(r.location), toLowerCase(place))
  IN IF place # <<>> THEN SelectSeq(candidates, keep) ELSE candidates

\* lines 325-331
hitCuisine(candidates, cuisine) ==
  LET keep(r) ==
        \E i \in 1..Len(r.cuisines) :
          includes(toLowerCase(r.cuisines[i]), toLowerCase(cuisine))
  IN IF cuisine # <<>> THEN SelectSeq(candidates, keep) ELSE candidates

\* lines 333-336
hitBudget(candidates, maxBudget) ==
  LET keep(r) == r.averageCost <= maxBudget.v
  IN IF Truthy(maxBudget) THEN SelectSeq(candidates, keep) ELSE candidates

\* a cache-hit path that lacks the seats filter
hitPeopleDropped(candidates, people) == candidates

\* lines 338-341
hitPeople(candidates, people) ==
  LET keep(r) == r.maxSeats >= people.v
  IN IF Truthy(people) THEN SelectSeq(candidates, keep) ELSE candidates

\* lines 343-349
hitVibe(candidates, vibe) ==
  LET keep(r) ==
        includes(toLowerCase(join(r.vibes \o r.amenities, <<" ">>)),
                 toLowerCase(vibe))
  IN IF vibe # <<>> THEN SelectSeq(candidates, keep) ELSE candidates

\* lines 351-357
hitKeywords(candidates, keywords) ==
  LET keep(p) ==
        \E i \in 1..Len(keywords.v) :
          includes(toLowerCase(stringify(p)), toLowerCase(keywords.v[i].v))
  IN IF keywords.v # <<>> THEN SelectSeq(candidates, keep) ELSE candidates

\* the filters of the cache-hit path, over the fields of the cached intent
hitFilters(snap, cachedIntent) ==
  hitKeywords(
    hitVibe(
      hitPeople(
        hitBudget(
          hitCuisine(hitPlace(snap, cachedIntent.place),
                     cachedIntent.cuisine),
          cachedIntent.maxBudget),
        cachedIntent.people),
      cachedIntent.vibe),
    cachedIntent.keywords)

\* candidates.slice(0, 50)
slice(candidates) ==
  SubSeq(candidates, 1,
         IF Len(candidates) < ResultCap THEN Len(candidates) ELSE ResultCap)

\* a validation that tests only !query
queryIsMissing(query) == ~Truthy(query)

\* if (!query || !String(query).trim()) return res.status(400)
queryIsBlank(query) == ~Truthy(query) \/ trim(ToText(query)) = <<>>

\* a cache key that is trimmed but keeps its case
trimmedQueryOf(query) == trim(query.v)

\* const normalizedQuery = query.toLowerCase().trim()
normalizedQueryOf(query) == trim(toLowerCase(query.v))

\* a set that keeps no entry but the one it stores
cacheSetAlone(cache, key, intent) == [k \in {key} |-> intent]

\* AI_QUERY_CACHE.set(normalizedQuery, intent)
cacheSet(cache, key, intent) ==
  [k \in (DOMAIN cache) \cup {key} |-> IF k = key THEN intent ELSE cache[k]]

\* the cached intent after the in-place coercion of its keywords (hit path)
cachedIntentOf(cache, key) ==
  [cache[key] EXCEPT !.keywords = normalizeKeywords(@)]

----------------------------------------------------------------------------
(* Responses. *)

NoResponse == [status |-> 0]

\* res.status(400).json({ error: "Query is required" })
badRequest == [status |-> 400, error |-> "Query is required"]

\* res.status(500).json({ error: "Server error", details: err.message })
serverError(message) ==
  [status |-> 500, error |-> "Server error", details |-> message]

\* a miss response that counts the documents after the cap
missResponseCountingSlice(intent, candidates) ==
  [status |-> 200, success |-> TRUE, intent |-> intent,
   total |-> Len(slice(candidates)), restaurants |-> slice(candidates)]

\* res.json({ success, intent, total, restaurants }) of the miss path
missResponse(intent, candidates) ==
  [status |-> 200, success |-> TRUE, intent |-> intent,
   total |-> Len(candidates), restaurants |-> slice(candidates)]

\* res.json({ success, cached: true, intent, total, restaurants }) of the hit
\* path
hitResponse(cachedIntent, candidates) ==
  [status |-> 200, success |-> TRUE, cached |-> TRUE, intent |-> cachedIntent,
   total |-> Len(candidates), restaurants |-> slice(candidates)]

----------------------------------------------------------------------------
(* loadAllCollectionsByUserId: the grouping of the records read. *)

\* ttl: 5 * 60 * 1000
ttl == 5 * 60 * 1000

collections ==
  <<"users", "restaurantcuisine", "amenities", "mealtimes", "offers",
    "tables", "experiences", "menuItems", "openingHours", "reviews",
    "sections", "extrareserves", "coverimage", "logoimage">>

\* a freshness test that still accepts an age equal to the ttl
cacheIsFreshInclusive(cache, t) ==
  Truthy(cache.data) /\ t - cache.timestamp <= cache.ttl

\* RESTAURANT_CACHE.data && now - RESTAURANT_CACHE.timestamp < RESTAURANT_CACHE.ttl
cacheIsFresh(cache, t) == Truthy(cache.data) /\ t - cache.timestamp < cache.ttl

\* { id: d.id, ...data }
withId(id, data) ==
  [f \in (DOMAIN data) \cup {"id"} |->
     IF f \in DOMAIN data THEN data[f] ELSE Str(id)]

\* maps[uid] = maps[uid] || {}; maps[uid][name] = maps[uid][name] || [];
\* maps[uid][name].push(record).  maps keeps its owners in insertion order.
pushRecord(maps, uid, name, record) ==
  LET add(bucket) ==
        [n \in (DOMAIN bucket) \cup {name} |->
           IF n = name
           THEN (IF name \in DOMAIN bucket THEN bucket[name] ELSE <<>>)
                \o <<record>>
           ELSE bucket[n]]
  IN IF \E i \in 1..Len(maps) : maps[i].uid = uid
     THEN [i \in 1..Len(maps) |->
             IF maps[i].uid = uid
             THEN [maps[i] EXCEPT !.bucket = add(@)]
             ELSE maps[i]]
     ELSE Append(maps, [uid |-> uid, bucket |-> add(<<>>)])

RECURSIVE groupDocs(_, _, _)
\* for (const d of snap.docs): uid = data.userId || d.id; if (!uid) continue
groupDocs(maps, name, docs) ==
  IF docs = <<>> THEN maps
  ELSE LET d == Head(docs)
           uid == Or(Get(d.data, "userId"), Str(d.id))
       IN groupDocs(
            IF Truthy(uid)
            THEN pushRecord(maps, ToText(uid), name, withId(d.id, d.data))
            ELSE maps,
            name, Tail(docs))

RECURSIVE groupSnaps(_, _, _)
\* snaps.forEach((snap, idx) => ...), from collection idx on
groupSnaps(maps, snaps, idx) ==
  IF idx > Len(snaps) THEN maps
  ELSE groupSnaps(groupDocs(maps, collections[idx], snaps[idx]), snaps,
                  idx + 1)

\* a load that leaves out the second pass over the users snapshot
foldUsersSkipped(maps, docs) == maps

RECURSIVE foldUsers(_, _)
\* for (const uDoc of usersSnap.docs): maps[uDoc.id].users.push({id, ...data})
foldUsers(maps, docs) ==
  IF docs = <<>> THEN maps
  ELSE foldUsers(
         pushRecord(maps, Head(docs).id, "users",
                    withId(Head(docs).id, Head(docs).data)),
         Tail(docs))

\* the map a load builds from the snapshots it read
buildMaps(snaps) == foldUsers(groupSnaps(<<>>, snaps, 1), snaps[1])

\* reads of which one rejection loses every snapshot
readAllOrNothing(source, failed) ==
  [i \in 1..Len(collections) |->
     IF failed # {} THEN <<>> ELSE source[collections[i]]]

\* db.collection(col).get().catch(() => ({ docs: [] })) for every collection,
\* the reads of the collections in failed rejecting
readAll(source, failed) ==
  [i \in 1..Len(collections) |->
     IF collections[i] \in failed THEN <<>> ELSE source[collections[i]]]

----------------------------------------------------------------------------
(* Sample inputs: request bodies, completion outputs, index and store      *)
(* contents.                                                               *)

\* req.body.query: missing, empty, blank, not a string, and three texts of
\* which the first two differ only in case and surrounding white space
Queries ==
  {Undefined, Str(<<>>), Str(<<" ", " ">>), Num(7),
   Str(<<"K", "i">>), Str(<<" ", "k", "I", "\t">>),
   Str(<<"2", " ", "p", "a", "x">>)}

\* the request bodies of the concurrent specification
ConcurrentQueries ==
  {Undefined, Str(<<" ", " ">>), Str(<<"K", "i">>),
   Str(<<" ", "k", "I", "\t">>), Str(<<"W", "e">>)}

\* the member lists of the object literals a completion may return
mTemplate ==
  [place |-> Str(<<>>), cuisine |-> Str(<<>>), vibe |-> Str(<<>>),
   maxBudget |-> Null, people |-> Null, keywords |-> Arr(<<>>)]
mPlace == [place |-> Str(<<"K", "I">>)]
mCuisine == [cuisine |-> Str(<<"S", "u">>)]
mBudget == [maxBudget |-> Num(10)]
mBudgetText == [maxBudget |-> Str(<<"5", "1">>)]
mPeople == [people |-> Num(4)]
mVibe == [vibe |-> Str(<<"R", "o">>)]
mVibeJoined == [vibe |-> Str(<<"w", "_", "f">>)]
mKeywords == [keywords |-> Arr(<<Str(<<"S", "u">>), Str(<<"z", "z">>)>>)]
mKeywordText == [keywords |-> Str(<<" ", "f", "a", " ">>)]
mKeywordNumber == [keywords |-> Arr(<<Num(7)>>)]
mKeywordCount == [keywords |-> Num(3)]
mKeywordBlank == [keywords |-> Str(<<" ">>)]
mCuisineFood == [cuisine |-> Str(<<"S", "u", " ", "f", "o", "o", "d">>)]
mPlaceBudget == [place |-> Str(<<"k", "i">>), maxBudget |-> Num(20)]
mAll ==
  [place |-> Str(<<"k", "i">>), cuisine |-> Str(<<"s", "u">>),
   vibe |-> Str(<<"r", "o">>), maxBudget |-> Num(30), people |-> Num(2),
   keywords |-> Arr(<<Str(<<"a", "l">>), Str(<<"B", "o">>)>>)]

\* the text of an object literal with these members
ObjectText(m) == Str(<<LBrace, Members(m), RBrace>>)

\* aiResp?.choices?.[0]?.message?.content of a completion that returned
Completions ==
  {ObjectText(m) :
     m \in {mTemplate, mPlace, mCuisine, mBudget, mBudgetText, mPeople, mVibe,
            mVibeJoined, mKeywords, mKeywordText, mKeywordNumber,
            mKeywordCount, mKeywordBlank, mCuisineFood, mPlaceBudget,
            mAll}}
  \cup {Undefined,
        Str(<<Prose>>),
        Str(<<Prose, LBrace, Members(mPlace), RBrace, Prose>>),
        Str(<<LBrace, Members(mPlace), RBrace, Prose, LBrace, RBrace>>),
        Str(<<LBrace, Members(mPlace)>>),
        Str(<<Literal(Null)>>),
        Str(<<Literal(Num(3))>>)}

\* the completion outputs of the concurrent specification
ConcurrentCompletions ==
  {ObjectText(mPlace), ObjectText(mKeywordText), Str(<<Prose>>),
   Str(<<Literal(Null)>>)}

\* a restaurants_search document as buildRestaurantsSearchIndex writes it:
\* cuisines, amenities and vibes lowercased, name and location as stored
Doc(id, name, location, cuisines, averageCost, maxSeats, amenities, vibes) ==
  [restaurantId |-> id, restaurantName |-> name, location |-> location,
   cuisines |-> cuisines, averageCost |-> averageCost, maxSeats |-> maxSeats,
   image |-> <<>>, amenities |-> amenities, vibes |-> vibes, updatedAt |-> 0]

\* db.collection("restaurants_search").get() returns the documents in the
\* order of their ids
SmallIndex ==
  <<Doc(<<"a">>, <<"A", "l">>, <<"K", "i">>, <<<<"s", "u">>>>, 10, 4,
        <<<<"w", "i">>>>, <<<<"r", "o">>>>),
    Doc(<<"b">>, <<"B", "o">>, <<"k", "i", " ", "w">>, <<<<"p", "i">>, <<"s", "u">>>>, 30, 2,
        <<>>, <<<<"r", "o">>, <<"f", "a">>>>),
    Doc(<<"c">>, <<"C", "y">>, <<"W", "e">>, <<>>, 0, 0,
        <<<<"r", "o">>>>, <<>>),
    Doc(<<"d">>, <<"D", "i">>, <<"k", "i">>, <<<<"p", "i">>>>, 10, 8,
        <<<<"f", "i">>>>, <<<<"w">>>>)>>

\* more documents than the response cap: costs 1, 2, ..., all but the first
\* located in the place the sample intents ask for
BigIndex ==
  [i \in 1..BigIndexLen |->
     Doc(NatToText(100 + i), <<"R">>,
         IF i = 1 THEN <<"W", "e">> ELSE <<"K", "i">>,
         <<<<"s", "u">>>>, i, i % 5, <<>>, <<>>)]

Indexes == {<<>>, SmallIndex, BigIndex}

ConcurrentIndexes == {SmallIndex}

Rec(id, data) == [id |-> id, data |-> data]

\* a source store: every collection of the loader, most of them empty
StoreOf(some) ==
  [c \in {collections[i] : i \in 1..Len(collections)} |->
     IF c \in DOMAIN some THEN some[c] ELSE <<>>]

StoreA ==
  StoreOf(
    [users |->
       <<Rec(<<"u", "1">>, [role |-> Str(<<"h", "o", "t", "e", "l">>), restaurantName |-> Str(<<"A", "l">>),
                     location |-> Str(<<"K", "i">>)]),
         Rec(<<"u", "2">>, [role |-> Str(<<"d", "i", "n", "e", "r">>)])>>,
     restaurantcuisine |->
       <<Rec(<<"c", "1">>, [userId |-> Str(<<"u", "1">>),
                     cuisines |-> Arr(<<Str(<<"S", "u">>)>>)])>>,
     tables |->
       <<Rec(<<"t", "1">>, [userId |-> Str(<<"u", "1">>), numSeats |-> Num(4)])>>,
     menuItems |->
       <<Rec(<<"m", "1">>, [userId |-> Str(<<"u", "1">>), price |-> Num(10)]),
         Rec(<<"m", "2">>, [userId |-> Str(<<"u", "2">>), price |-> Num(15)])>>,
     coverimage |->
       <<Rec(<<"i", "1">>, [userId |-> Str(<<"u", "2">>),
                     coverImageUrl |-> Str(<<"x">>)])>>])

StoreB ==
  StoreOf(
    [users |->
       <<Rec(<<"u", "1">>, [role |-> Str(<<"h", "o", "t", "e", "l">>), userId |-> Str(<<"u", "2">>)]),
         Rec(<<"u", "2">>, [role |-> Str(<<"h", "o", "t", "e", "l">>)])>>,
     reviews |-> <<Rec(<<"r", "1">>, [text |-> Str(<<"o", "k">>)])>>])

Stores == {StoreA, StoreB}

\* StoreA after the role of u1 changed to diner
StoreDemoted ==
  [StoreA EXCEPT !["users"][1].data["role"] = Str(<<"d", "i", "n", "e", "r">>)]

\* StoreA after the user record of u1 was removed
StoreRemoved == [StoreA EXCEPT !["users"] = Tail(@)]

\* a hotel's user record that carries the userId of a diner
StoreForeign ==
  StoreOf(
    [users |->
       <<Rec(<<"u", "1">>, [role |-> Str(<<"h", "o", "t", "e", "l">>),
                            location |-> Str(<<"K", "i">>),
                            userId |-> Str(<<"u", "2">>)]),
         Rec(<<"u", "2">>, [role |-> Str(<<"d", "i", "n", "e", "r">>)])>>])

\* the source stores a rebuild may find, and the changes made to them
BuildStores == {StoreA, StoreForeign}

StoreChanges == {<<StoreA, StoreDemoted>>, <<StoreA, StoreRemoved>>}

\* the longest menu of a sample store
MaxMenu == 2

Hotel == [role |-> Str(<<"h", "o", "t", "e", "l">>)]

\* the user record of hotel u1: without an average-cost field, with a zero,
\* a positive, a negative or a textual averageCost, with the lower-case
\* averagecost alone or beside a zero averageCost
CostFields ==
  {Hotel,
   [f \in {"role", "averageCost"} |->
      IF f = "role" THEN Hotel.role ELSE Num(0)],
   [f \in {"role", "averageCost"} |->
      IF f = "role" THEN Hotel.role ELSE Num(25)],
   [f \in {"role", "averageCost"} |->
      IF f = "role" THEN Hotel.role ELSE Num(0 - 5)],
   [f \in {"role", "averageCost"} |->
      IF f = "role" THEN Hotel.role ELSE Str(<<"1", "2">>)],
   [f \in {"role", "averagecost"} |->
      IF f = "role" THEN Hotel.role ELSE Num(30)],
   [f \in {"role", "averageCost", "averagecost"} |->
      IF f = "role" THEN Hotel.role
      ELSE IF f = "averageCost" THEN Num(0) ELSE Num(30)]}

\* the price of a menu item: zero, positive, negative, a numeric text
Prices == {Num(0), Num(10), Num(15), Num(0 - 40), Str(<<"7">>)}

\* the menus of hotel u1, up to MaxMenu items
Menus ==
  UNION {[1..n -> Prices] : n \in 0..MaxMenu}

MenuItems(menu) ==
  [i \in 1..Len(menu) |->
     Rec(<<"m", DigitChar[i]>>,
         [userId |-> Str(<<"u", "1">>), price |-> menu[i]])]

\* stores that differ in the average-cost field and the menu of hotel u1
CostStores ==
  {StoreOf([users |-> <<Rec(<<"u", "1">>, fields)>>,
            menuItems |-> MenuItems(menu)]) :
     fields \in CostFields, menu \in Menus}

\* an image record: its document id, the owner it names if any, its URL
ImageRec(id, owner, field, url) ==
  Rec(id,
      IF owner = <<>> THEN [f \in {field} |-> Str(url)]
      ELSE [f \in {"userId", field} |->
              IF f = "userId" THEN Str(owner) ELSE Str(url)])

\* the cover images of hotels u1 and u2: none, one of u1, one of u2, one of
\* each, one of u1 stored under u1's id without a userId
CoverImages ==
  {<<>>,
   <<ImageRec(<<"i", "1">>, <<"u", "1">>, "coverImageUrl", <<"a">>)>>,
   <<ImageRec(<<"i", "2">>, <<"u", "2">>, "coverImageUrl", <<"b">>)>>,
   <<ImageRec(<<"i", "2">>, <<"u", "2">>, "coverImageUrl", <<"b">>),
     ImageRec(<<"i", "1">>, <<"u", "1">>, "coverImageUrl", <<"a">>)>>,
   <<ImageRec(<<"u", "1">>, <<>>, "coverImageUrl", <<"a">>)>>}

\* their logo images: none, one of u1, one of u2
LogoImages ==
  {<<>>,
   <<ImageRec(<<"l", "1">>, <<"u", "1">>, "logoImageUrl", <<"c">>)>>,
   <<ImageRec(<<"l", "2">>, <<"u", "2">>, "logoImageUrl", <<"d">>)>>}

\* stores that differ in the image records of hotels u1 and u2
ImageStores ==
  {StoreOf([users |-> <<Rec(<<"u", "1">>, Hotel), Rec(<<"u", "2">>, Hotel)>>,
            coverimage |-> covers, logoimage |-> logos]) :
     covers \in CoverImages, logos \in LogoImages}

ProfileStores == CostStores \cup ImageStores

\* the sets of collections whose read rejects during one load
FailSets ==
  {{}, {"users"}, {"menuItems", "coverimage"},
   {collections[i] : i \in 1..Len(collections)}}

\* Date.now() when the process starts
StartTime == 2 * ttl

\* the clock advances by one millisecond or by one less than the ttl
TickSteps == {1, ttl - 1}

\* how many advances brought the clock to t
TickCount(t) ==
  ((t - StartTime) \div (ttl - 1)) + ((t - StartTime) % (ttl - 1))

----------------------------------------------------------------------------
(* buildRestaurantProfile and buildRestaurantsSearchIndex: the documents   *)
(* derived from one owner's bucket.                                        *)

\* bucket[name] || []
Records(bucket, name) == IF name \in DOMAIN bucket THEN bucket[name] ELSE <<>>

\* bucket[name]?.[0]?.[f]
FirstField(bucket, name, f) ==
  IF Records(bucket, name) = <<>> THEN Undefined
  ELSE Get(Records(bucket, name)[1], f)

RECURSIVE Sum(_)
\* prices.reduce((a, b) => a + b, 0)
Sum(a) == IF a = <<>> THEN 0 ELSE Head(a) + Sum(Tail(a))

\* Math.round(p / q) of integers, q > 0: the nearest integer, halves upwards
round(p, q) == (2 * p + q) \div (2 * q)

\* menu.map(m => Number(m.price || 0)).filter(Boolean)
pricesOf(menu) ==
  LET price(m) == ToNumber(Or(Get(m, "price"), Num(0)))
      all == [i \in 1..Len(menu) |-> price(menu[i])]
  IN SelectSeq(all, Truthy)

\* a mean taken over every menu item, the items without a price as zeros
withMenuMeanOfAll(averageCost, menu) ==
  LET price(m) == ToNumber(Or(Get(m, "price"), Num(0)))
  IN IF ~Truthy(averageCost) /\ menu # <<>>
     THEN Num(round(Sum([i \in 1..Len(menu) |-> price(menu[i]).v]),
                    Len(menu)))
     ELSE averageCost

\* if (!averageCost && menu.length) { ... averageCost = Math.round(mean) }
withMenuMean(averageCost, menu) ==
  IF ~Truthy(averageCost) /\ menu # <<>> /\ pricesOf(menu) # <<>>
  THEN Num(round(Sum([i \in 1..Len(pricesOf(menu)) |-> pricesOf(menu)[i].v]),
                 Len(pricesOf(menu))))
  ELSE averageCost

\* buildRestaurantProfile: averageCost
profileAverageCost(bucket) ==
  LET userDoc == IF Records(bucket, "users") = <<>> THEN <<>>
                 ELSE Records(bucket, "users")[1]
  IN withMenuMean(
       ToNumber(Or(Get(userDoc, "averageCost"),
                   Or(Get(userDoc, "averagecost"), Num(0)))),
       Records(bucket, "menuItems"))

\* (bucket[name] || []).find(img => img.userId === userId)?.[f]
foundField(bucket, name, userId, f) ==
  LET own(img) == Get(img, "userId") = Str(userId)
      found == SelectSeq(Records(bucket, name), own)
  IN IF found = <<>> THEN Undefined ELSE Get(found[1], f)

\* buildRestaurantProfile: image = coverImage || logoImage || ""
profileImage(userId, bucket) ==
  Or(foundField(bucket, "coverimage", userId, "coverImageUrl"),
     Or(foundField(bucket, "logoimage", userId, "logoImageUrl"), Str(<<>>)))

\* parseTimestamp(val) of a stored date: null when there is none
parseTimestamp(val) == IF Truthy(val) THEN val ELSE Null

\* (bucket.offers || []).map(o => ({id, name, price, from, to}))
profileOffers(bucket) ==
  [i \in 1..Len(Records(bucket, "offers")) |->
     [id |-> Get(Records(bucket, "offers")[i], "id"),
      name |-> Get(Records(bucket, "offers")[i], "name"),
      price |-> Get(Records(bucket, "offers")[i], "price"),
      from |-> parseTimestamp(Get(Records(bucket, "offers")[i], "dateFrom")),
      to |-> parseTimestamp(Get(Records(bucket, "offers")[i], "dateTo"))]]

\* the profile of one owner
buildRestaurantProfile(userId, bucket) ==
  LET userDoc == IF Records(bucket, "users") = <<>> THEN <<>>
                 ELSE Records(bucket, "users")[1]
  IN [id |-> userId,
      restaurantName |-> Or(Get(userDoc, "restaurantName"), Str(<<>>)),
      location |-> Or(Get(userDoc, "location"), Str(<<>>)),
      cuisines |-> Or(FirstField(bucket, "restaurantcuisine", "cuisines"),
                      Arr(<<>>)),
      averageCost |-> profileAverageCost(bucket),
      offers |-> profileOffers(bucket),
      image |-> profileImage(userId, bucket),
      tables |-> Records(bucket, "tables"),
      extrareserves |-> Records(bucket, "extrareserves"),
      raw |-> [userDoc |-> userDoc, tables |-> Records(bucket, "tables"),
               extrareserves |-> Records(bucket, "extrareserves")]]

\* the profile of every owner of a loaded map, in the order of its owners
profilesOf(byUser) ==
  [i \in 1..Len(byUser) |->
     buildRestaurantProfile(byUser[i].uid, byUser[i].bucket)]

\* buildRestaurantsSearchIndex: const user = bucket.users?.[0];
\* if (!user || user.role !== "hotel") continue
isIndexed(bucket) ==
  /\ Records(bucket, "users") # <<>>
  /\ Get(Records(bucket, "users")[1], "role") = Str(<<"h", "o", "t", "e", "l">>)

\* bucket.restaurantcuisine?.[0]?.cuisines?.map(..) throws: the field is
\* neither missing nor an array
cuisinesThrow(bucket) ==
  FirstField(bucket, "restaurantcuisine", "cuisines").t
    \notin {"undefined", "null", "array"}

\* bucket.restaurantcuisine?.[0]?.cuisines?.map(c => String(c).toLowerCase())
\*   || []
indexCuisines(bucket) ==
  LET cuisines == FirstField(bucket, "restaurantcuisine", "cuisines")
  IN IF cuisines.t = "array"
     THEN [i \in 1..Len(cuisines.v) |-> toLowerCase(ToText(cuisines.v[i]))]
     ELSE <<>>

\* a choice that prefers the logo image to the cover image
indexImageLogoFirst(bucket) ==
  Or(FirstField(bucket, "logoimage", "logoImageUrl"),
     Or(FirstField(bucket, "coverimage", "coverImageUrl"), Str(<<>>)))

\* bucket.coverimage?.[0]?.coverImageUrl || bucket.logoimage?.[0]?.logoImageUrl
\*   || ""
indexImage(bucket) ==
  Or(FirstField(bucket, "coverimage", "coverImageUrl"),
     Or(FirstField(bucket, "logoimage", "logoImageUrl"), Str(<<>>)))

\* let averageCost = Number(user.averageCost || 0), then the menu mean
indexAverageCost(bucket) ==
  withMenuMean(
    ToNumber(Or(Get(Records(bucket, "users")[1], "averageCost"), Num(0))),
    Records(bucket, "menuItems"))

RECURSIVE maxSeatsOf(_, _)
\* tables.reduce((max, t) => Math.max(max, Number(t.numSeats || 0)), 0)
maxSeatsOf(max, tables) ==
  IF tables = <<>> THEN max
  ELSE LET n == ToNumber(Or(Get(Head(tables), "numSeats"), Num(0)))
       IN maxSeatsOf(IF max.t = "NaN" \/ n.t = "NaN" THEN NaN
                     ELSE IF n.v > max.v THEN n ELSE max,
                     Tail(tables))

\* (bucket.amenities || []).map(a => String(a.name || a).toLowerCase())
indexAmenities(bucket) ==
  [i \in 1..Len(Records(bucket, "amenities")) |->
     toLowerCase(ToText(Or(Get(Records(bucket, "amenities")[i], "name"),
                           Obj(Records(bucket, "amenities")[i]))))]

\* (bucket.experiences || []).map(e => String(e.name || "").toLowerCase())
indexVibes(bucket) ==
  [i \in 1..Len(Records(bucket, "experiences")) |->
     toLowerCase(ToText(Or(Get(Records(bucket, "experiences")[i], "name"),
                           Str(<<>>))))]

\* the document batch.set writes for an indexed owner, before the server
\* sets updatedAt
searchDocOf(uid, bucket) ==
  [restaurantId |-> uid,
   restaurantName |->
     Or(Get(Records(bucket, "users")[1], "restaurantName"), Str(<<>>)).v,
   location |-> Or(Get(Records(bucket, "users")[1], "location"), Str(<<>>)).v,
   cuisines |-> indexCuisines(bucket),
   averageCost |-> indexAverageCost(bucket).v,
   maxSeats |-> maxSeatsOf(Num(0), Records(bucket, "tables")).v,
   image |-> indexImage(bucket).v,
   amenities |-> indexAmenities(bucket),
   vibes |-> indexVibes(bucket),
   updatedAt |-> 0]

\* for (const [uid, bucket] of Object.entries(byUser)): the batch of writes
batchOf(byUser) ==
  LET indexed(e) == isIndexed(e.bucket)
      kept == SelectSeq(byUser, indexed)
  IN [i \in 1..Len(kept) |-> searchDocOf(kept[i].uid, kept[i].bucket)]

\* some indexed owner's cuisines make the loop throw
batchThrows(byUser) ==
  \E i \in 1..Len(byUser) :
    isIndexed(byUser[i].bucket) /\ cuisinesThrow(byUser[i].bucket)

\* the characters of document ids, in the order of their code points
CodePoints ==
  <<"0", "1", "2", "3", "4", "5", "6", "7", "8", "9",
    "A", "B", "C", "D", "E", "F", "G", "H", "I", "J", "K", "L", "M",
    "N", "O", "P", "Q", "R", "S", "T", "U", "V", "W", "X", "Y", "Z",
    "a", "b", "c", "d", "e", "f", "g", "h", "i", "j", "k", "l", "m",
    "n", "o", "p", "q", "r", "s", "t", "u", "v", "w", "x", "y", "z">>

CodePoint(c) == CHOOSE i \in 1..Len(CodePoints) : CodePoints[i] = c

RECURSIVE idBefore(_, _)
\* document id a sorts before document id b
idBefore(a, b) ==
  IF b = <<>> THEN FALSE
  ELSE IF a = <<>> THEN TRUE
  ELSE IF Head(a) = Head(b) THEN idBefore(Tail(a), Tail(b))
  ELSE CodePoint(Head(a)) < CodePoint(Head(b))

\* batch.set(ref, doc) applied to the collection: the document with this id
\* is replaced, or the document is added at the place of its id
setDoc(index, doc) ==
  LET before(d) == idBefore(d.restaurantId, doc.restaurantId)
      after(d) == idBefore(doc.restaurantId, d.restaurantId)
  IN SelectSeq(index, before) \o <<doc>> \o SelectSeq(index, after)

RECURSIVE commitBatch(_, _, _)
\* batch.commit(): every set of the batch applied, updatedAt the server time
commitBatch(index, batch, seconds) ==
  IF batch = <<>> THEN index
  ELSE commitBatch(setDoc(index, [Head(batch) EXCEPT !.updatedAt = seconds]),
                   Tail(batch), seconds)

----------------------------------------------------------------------------
(* State. *)

VARIABLES
  AI_QUERY_CACHE,      \* Map: normalized query text -> intent
  RESTAURANT_CACHE,    \* { data, timestamp, ttl }
  restaurants_search,  \* the persisted search index, in storage order
  store,               \* the source collections of the document store
  now,                 \* Date.now()
  req,                 \* per POST /ai-search request: position and locals
  res,                 \* per request: the response sent
  task,                \* per loadAllCollectionsByUserId call: position, locals
  build,               \* per buildRestaurantsSearchIndex call: position, batch
  profiles,            \* per loaded map: the profiles built from its buckets
  groqCalls,           \* groq.chat.completions.create calls issued
  storeReads           \* db.collection(..).get() calls issued

vars ==
  <<AI_QUERY_CACHE, RESTAURANT_CACHE, restaurants_search, store, now, req,
    res, task, build, profiles, groqCalls, storeReads>>

searchVars == <<AI_QUERY_CACHE, req, res, groqCalls>>

loaderVars == <<RESTAURANT_CACHE, now, task>>

Reqs == 1..NumReqs

Tasks == 1..NumTasks

NoIntent == Null

IdleReq ==
  [pc |-> "idle", query |-> Undefined, normalizedQuery |-> <<>>,
   cached |-> FALSE, rawAiText |-> Undefined, intent |-> NoIntent]

\* a rebuild awaits the loader call of the same number, then its batch commit
IdleBuild == [pc |-> "idle", batch |-> <<>>, count |-> 0]

IdleTask == [pc |-> "idle", now |-> 0, failed |-> {}, result |-> Null]

\* the state when the module has been loaded, before app.listen's callback
InitWith(indexes, stores) ==
  /\ AI_QUERY_CACHE = <<>>
  /\ RESTAURANT_CACHE = [data |-> Null, timestamp |-> 0, ttl |-> ttl]
  /\ restaurants_search \in indexes
  /\ store \in stores
  /\ now = StartTime
  /\ req = [r \in Reqs |-> IdleReq]
  /\ res = [r \in Reqs |-> NoResponse]
  /\ task = [t \in Tasks |-> IdleTask]
  /\ build = [k \in Tasks |-> IdleBuild]
  /\ profiles = [t \in Tasks |-> Null]
  /\ groqCalls = 0
  /\ storeReads = 0

----------------------------------------------------------------------------
(* POST /ai-search.  One action per stretch of the handler between awaits. *)

Finish(r, response) ==
  /\ req' = [req EXCEPT ![r].pc = "done"]
  /\ res' = [res EXCEPT ![r] = response]

\* lines 285-312 and 371-400: validation, cache lookup, then either the hit
\* path up to its index read or the miss path up to the completion call
Arrive(r, queries) ==
  /\ req[r].pc = "idle"
  /\ \E query \in queries :
       IF queryIsBlank(query)
       THEN /\ req' = [req EXCEPT ![r].pc = "done", ![r].query = query]
            /\ res' = [res EXCEPT ![r] = badRequest]
            /\ UNCHANGED <<AI_QUERY_CACHE, groqCalls, storeReads>>
       ELSE IF query.t # "string"
       THEN \* query.toLowerCase is not a function
            /\ req' = [req EXCEPT ![r].pc = "done", ![r].query = query]
            /\ res' = [res EXCEPT ![r] = serverError("TypeError")]
            /\ UNCHANGED <<AI_QUERY_CACHE, groqCalls, storeReads>>
       ELSE IF normalizedQueryOf(query) \in DOMAIN AI_QUERY_CACHE
       THEN LET key == normalizedQueryOf(query)
                cachedIntent == cachedIntentOf(AI_QUERY_CACHE, key)
            IN /\ AI_QUERY_CACHE' =
                    [AI_QUERY_CACHE EXCEPT ![key] = cachedIntent]
               /\ req' = [req EXCEPT ![r] =
                    [pc |-> "hitRead", query |-> query,
                     normalizedQuery |-> key, cached |-> TRUE,
                     rawAiText |-> Undefined, intent |-> cachedIntent]]
               /\ storeReads' = storeReads + 1
               /\ UNCHANGED <<res, groqCalls>>
       ELSE /\ req' = [req EXCEPT ![r] =
                 [pc |-> "aiCall", query |-> query,
                  normalizedQuery |-> normalizedQueryOf(query),
                  cached |-> FALSE, rawAiText |-> Undefined,
                  intent |-> NoIntent]]
            /\ groqCalls' = groqCalls + 1
            /\ UNCHANGED <<AI_QUERY_CACHE, res, storeReads>>
  /\ UNCHANGED <<build, RESTAURANT_CACHE, restaurants_search, store, profiles,
                 now, task>>

\* lines 402-427: the completion resolved; parse, normalize, store the intent
\* in the cache, issue the index read
CompletionReturns(r, contents) ==
  /\ req[r].pc = "aiCall"
  /\ \E content \in contents :
       LET rawAiText == Or(content, Str(<<>>))
           intent == safeParseJSON(rawAiText)
       IN IF ReadThrows(intent)
          THEN \* Cannot read properties of null (reading 'place')
               /\ req' = [req EXCEPT ![r].pc = "done",
                                     ![r].rawAiText = rawAiText]
               /\ res' = [res EXCEPT ![r] = serverError("TypeError")]
               /\ UNCHANGED <<AI_QUERY_CACHE, storeReads>>
          ELSE /\ AI_QUERY_CACHE' =
                    cacheSet(AI_QUERY_CACHE, req[r].normalizedQuery,
                             deriveIntent(intent, req[r].query.v))
               /\ req' = [req EXCEPT ![r].pc = "missRead",
                                     ![r].rawAiText = rawAiText,
                                     ![r].intent =
                                       deriveIntent(intent, req[r].query.v)]
               /\ storeReads' = storeReads + 1
               /\ UNCHANGED res
  /\ UNCHANGED <<build, RESTAURANT_CACHE, restaurants_search, store, profiles,
                 now, task, groqCalls>>

\* a catch block that caches an empty intent for the failed request
CompletionFailsCaching(r) ==
  /\ req[r].pc = "aiCall"
  /\ Finish(r, serverError("completion failed"))
  /\ AI_QUERY_CACHE' =
       cacheSet(AI_QUERY_CACHE, req[r].normalizedQuery,
                deriveIntent(EmptyObject, <<>>))
  /\ UNCHANGED <<build, RESTAURANT_CACHE, restaurants_search, store, profiles,
                 now, task, groqCalls, storeReads>>

\* lines 397-400 and 476-479: the completion rejected
CompletionFails(r) ==
  /\ req[r].pc = "aiCall"
  /\ Finish(r, serverError("completion failed"))
  /\ UNCHANGED <<build, AI_QUERY_CACHE, RESTAURANT_CACHE, restaurants_search,
                 store, profiles, now, task, groqCalls, storeReads>>

\* lines 312-365 and 427-474: the index read resolved; filter and respond
IndexReadReturns(r) ==
  /\ req[r].pc \in {"hitRead", "missRead"}
  /\ LET snap == restaurants_search
         intent == req[r].intent
     IN IF keywordsThrow(intent.keywords)
        THEN \* k.toLowerCase is not a function
             Finish(r, serverError("TypeError"))
        ELSE IF req[r].pc = "hitRead"
        THEN Finish(r, hitResponse(intent, hitFilters(snap, intent)))
        ELSE Finish(r, missResponse(intent,
               missFilters(snap, intent.place, intent.cuisine, intent.vibe,
                           intent.maxBudget, intent.people,
                           intent.keywords)))
  /\ UNCHANGED <<build, AI_QUERY_CACHE, RESTAURANT_CACHE, restaurants_search,
                 store, profiles, now, task, groqCalls, storeReads>>

\* a catch block that takes the request's entry out of the cache again
IndexReadFailsEvicting(r) ==
  /\ req[r].pc \in {"hitRead", "missRead"}
  /\ Finish(r, serverError("store failed"))
  /\ AI_QUERY_CACHE' =
       IF req[r].pc = "missRead"
       THEN [k \in (DOMAIN AI_QUERY_CACHE) \ {req[r].normalizedQuery} |->
               AI_QUERY_CACHE[k]]
       ELSE AI_QUERY_CACHE
  /\ UNCHANGED <<build, RESTAURANT_CACHE, restaurants_search, store, profiles,
                 now, task, groqCalls, storeReads>>

\* lines 312, 427 and 476-479: the index read rejected
IndexReadFails(r) ==
  /\ req[r].pc \in {"hitRead", "missRead"}
  /\ Finish(r, serverError("store failed"))
  /\ UNCHANGED <<build, AI_QUERY_CACHE, RESTAURANT_CACHE, restaurants_search,
                 store, profiles, now, task, groqCalls, storeReads>>

----------------------------------------------------------------------------
(* loadAllCollectionsByUserId.  One action per stretch between awaits. *)

\* lines 84-114: read the clock, return the cached map if fresh, else issue
\* one read per source collection
LoadCall(t) ==
  /\ task[t].pc = "idle"
  /\ IF cacheIsFresh(RESTAURANT_CACHE, now)
     THEN /\ task' = [task EXCEPT ![t] =
               [pc |-> "done", now |-> now, failed |-> {},
                result |-> RESTAURANT_CACHE.data]]
          /\ UNCHANGED storeReads
     ELSE /\ task' = [task EXCEPT ![t] =
               [pc |-> "reading", now |-> now, failed |-> {},
                result |-> Null]]
          /\ storeReads' = storeReads + Len(collections)
  /\ UNCHANGED <<AI_QUERY_CACHE, RESTAURANT_CACHE, restaurants_search, store,
                 profiles, now, req, res, groqCalls>>

\* a call of the loader on its own
LoadBegin(t) == LoadCall(t) /\ UNCHANGED build

\* buildRestaurantProfile applied to every bucket of the map call t returned
BuildProfiles(t) ==
  /\ task[t].pc = "done"
  /\ profiles[t] = Null
  /\ profiles' = [profiles EXCEPT ![t] = Arr(profilesOf(task[t].result.v))]
  /\ UNCHANGED <<AI_QUERY_CACHE, RESTAURANT_CACHE, restaurants_search, store,
                 now, req, res, task, build, groqCalls, storeReads>>

\* a resumption that groups the records it read into the map of the slot
\* instead of a map of its own
LoadResumeMerging(t, failSets) ==
  /\ task[t].pc = "reading"
  /\ \E failed \in failSets :
       LET snaps == readAll(store, failed)
           cached == IF RESTAURANT_CACHE.data = Null THEN <<>>
                     ELSE RESTAURANT_CACHE.data.v
           maps == Obj(foldUsers(groupSnaps(cached, snaps, 1), snaps[1]))
       IN /\ RESTAURANT_CACHE' =
               [data |-> maps, timestamp |-> task[t].now,
                ttl |-> RESTAURANT_CACHE.ttl]
          /\ task' = [task EXCEPT ![t].pc = "done", ![t].failed = failed,
                                   ![t].result = maps]
  /\ UNCHANGED <<build, AI_QUERY_CACHE, restaurants_search, store, profiles,
                 now, req, res, groqCalls, storeReads>>

\* lines 114-145: the reads settled; group, replace the cache slot, return
LoadResumeWith(t, failSets) ==
  /\ task[t].pc = "reading"
  /\ \E failed \in failSets :
       LET maps == Obj(buildMaps(readAll(store, failed)))
       IN /\ RESTAURANT_CACHE' =
               [data |-> maps, timestamp |-> task[t].now,
                ttl |-> RESTAURANT_CACHE.ttl]
          /\ task' = [task EXCEPT ![t].pc = "done", ![t].failed = failed,
                                   ![t].result = maps]
  /\ UNCHANGED <<build, AI_QUERY_CACHE, restaurants_search, store, profiles,
                 now, req, res, groqCalls, storeReads>>

\* the reads settled, each of them rejected or not
LoadResume(t) == LoadResumeWith(t, FailSets)

----------------------------------------------------------------------------
(* buildRestaurantsSearchIndex.  One action per stretch between awaits.    *)

\* lines 203-205: the rebuild calls the loader
BuildBegin(k) ==
  /\ build[k].pc = "idle"
  /\ LoadCall(k)
  /\ build' = [build EXCEPT ![k].pc = "loading"]

\* lines 205-276: the loader returned; queue a write per indexed owner and
\* issue the commit
BuildBatch(k) ==
  /\ build[k].pc = "loading"
  /\ task[k].pc = "done"
  /\ LET byUser == task[k].result.v
     IN IF batchThrows(byUser)
        THEN build' = [build EXCEPT ![k].pc = "failed"]
        ELSE build' = [build EXCEPT ![k] =
               [pc |-> "committing", batch |-> batchOf(byUser),
                count |-> Len(batchOf(byUser))]]
  /\ UNCHANGED <<AI_QUERY_CACHE, RESTAURANT_CACHE, restaurants_search, store,
                 profiles, now, req, res, task, groqCalls, storeReads>>

\* a commit that clears the collection before it writes the batch
BuildCommitClearing(k) ==
  /\ build[k].pc = "committing"
  /\ restaurants_search' = commitBatch(<<>>, build[k].batch, now \div 1000)
  /\ build' = [build EXCEPT ![k].pc = "done"]
  /\ UNCHANGED <<AI_QUERY_CACHE, RESTAURANT_CACHE, store, profiles, now, req,
                 res, task, groqCalls, storeReads>>

\* lines 276-277: the commit resolved, every write of the batch applied
BuildCommit(k) ==
  /\ build[k].pc = "committing"
  /\ restaurants_search' =
       commitBatch(restaurants_search, build[k].batch, now \div 1000)
  /\ build' = [build EXCEPT ![k].pc = "done"]
  /\ UNCHANGED <<AI_QUERY_CACHE, RESTAURANT_CACHE, store, profiles, now, req,
                 res, task, groqCalls, storeReads>>

\* line 276: the commit rejected, no write of the batch applied
BuildCommitFails(k) ==
  /\ build[k].pc = "committing"
  /\ build' = [build EXCEPT ![k].pc = "failed"]
  /\ UNCHANGED <<AI_QUERY_CACHE, RESTAURANT_CACHE, restaurants_search, store,
                 profiles, now, req, res, task, groqCalls, storeReads>>

\* the source records change in the store
StoreChange ==
  /\ \E c \in StoreChanges : store = c[1] /\ store' = c[2]
  /\ UNCHANGED <<AI_QUERY_CACHE, RESTAURANT_CACHE, restaurants_search,
                 profiles, now, req, res, task, build, groqCalls, storeReads>>

\* time passes
Tick ==
  /\ TickCount(now) < MaxTicks
  /\ \E d \in TickSteps : now' = now + d
  /\ UNCHANGED <<build, AI_QUERY_CACHE, RESTAURANT_CACHE, restaurants_search,
                 store, profiles, req, res, task, groqCalls, storeReads>>

\* the ttl of the aggregation cache passes
TtlElapses ==
  /\ TickCount(now) + 2 <= MaxTicks
  /\ now' = now + ttl
  /\ UNCHANGED <<AI_QUERY_CACHE, RESTAURANT_CACHE, restaurants_search, store,
                 profiles, req, res, task, build, groqCalls, storeReads>>

----------------------------------------------------------------------------
(* Specifications. *)

\* requests are numbered in the order they arrive
ArrivesNext(r) == IF r = 1 THEN TRUE ELSE req[r - 1].pc # "idle"

\* the server under concurrent requests
Init == InitWith(ConcurrentIndexes, {StoreA})

Next ==
  \E r \in Reqs :
    \/ ArrivesNext(r) /\ Arrive(r, ConcurrentQueries)
    \/ CompletionReturns(r, ConcurrentCompletions)
    \/ CompletionFails(r)
    \/ IndexReadReturns(r)
    \/ IndexReadFails(r)

Spec == Init /\ [][Next]_vars

\* the server as index.js starts it: after app.listen nothing but the request
\* handlers is ever scheduled, and a handler that can take a step takes one
SpecServer == Init /\ [][Next]_vars /\ WF_vars(Next)

\* the texts that have the normalized query of a request body
RepeatsOf(query) ==
  IF query.t = "string"
  THEN {query, Str(<<" ">> \o toLowerCase(query.v))}
  ELSE {query}

\* one request over the full samples, then a repeat of it once it is answered
InitSearch == InitWith(Indexes, {StoreA})

NextSearch ==
  \/ Arrive(1, Queries)
  \/ req[1].pc = "done" /\ Arrive(2, RepeatsOf(req[1].query))
  \/ \E r \in {1, 2} :
       \/ CompletionReturns(r, Completions)
       \/ CompletionFails(r)
       \/ IndexReadReturns(r)
       \/ IndexReadFails(r)

SpecSearch == InitSearch /\ [][NextSearch]_vars

\* calls are numbered in the order they start
StartsNext(t) == IF t = 1 THEN TRUE ELSE task[t - 1].pc # "idle"

\* the loader under concurrent calls and a moving clock
InitLoad == InitWith({<<>>}, Stores)

NextLoad ==
  \/ \E t \in Tasks :
       \/ StartsNext(t) /\ LoadBegin(t)
       \/ LoadResume(t)
  \/ Tick

SpecLoad == InitLoad /\ [][NextLoad]_vars

\* the query and the completion of the search that runs beside the rebuilds
BuildQueries == {Str(<<"K", "i">>)}

BuildCompletions == {ObjectText(mPlace)}

\* during the load of a rebuild all reads resolve, or the users read rejects
BuildFailSets == {{}, {"users"}}

\* a rebuild starts when the one before it is past its loader call
BuildsNext(k) ==
  IF k = 1 THEN TRUE ELSE build[k - 1].pc \notin {"idle", "loading"}

\* calls of buildRestaurantsSearchIndex beside a changing store, a moving
\* clock and a search
InitBuild == InitWith({<<>>}, BuildStores)

NextBuild ==
  \/ \E k \in Tasks :
       \/ BuildsNext(k) /\ BuildBegin(k)
       \/ LoadResumeWith(k, BuildFailSets)
       \/ BuildBatch(k)
       \/ BuildCommit(k)
       \/ BuildCommitFails(k)
  \/ StoreChange
  \/ TtlElapses
  \/ Arrive(1, BuildQueries)
  \/ CompletionReturns(1, BuildCompletions)
  \/ IndexReadReturns(1)

SpecBuild == InitBuild /\ [][NextBuild]_vars

\* profiles and search documents derived from the same loaded maps, every
\* read of the loads resolving
InitProfile == InitWith({<<>>}, ProfileStores)

NextProfile ==
  \E k \in Tasks :
    \/ BuildsNext(k) /\ BuildBegin(k)
    \/ LoadResumeWith(k, {{}})
    \/ BuildProfiles(k)
    \/ BuildBatch(k)
    \/ BuildCommit(k)

SpecProfile == InitProfile /\ [][NextProfile]_vars

----------------------------------------------------------------------------
(* Properties of POST /ai-search over one request and its repeat           *)
(* (SpecSearch).                                                           *)

Answered(r) == req[r].pc = "done" /\ res[r].status = 200

Min(a, b) == IF a < b THEN a ELSE b

\* the document passes every filter whose intent field is present, all texts
\* compared as they are stored
PassesLiterally(d, intent) ==
  /\ intent.place # <<>> => includes(d.location, intent.place)
  /\ intent.cuisine # <<>> =>
       \E c \in 1..Len(d.cuisines) : includes(d.cuisines[c], intent.cuisine)
  /\ intent.maxBudget # Null => d.averageCost <= intent.maxBudget.v
  /\ intent.people # Null => d.maxSeats >= intent.people.v
  /\ intent.vibe # <<>> =>
       includes(join(d.vibes \o d.amenities, <<" ">>), intent.vibe)
  /\ intent.keywords.v # <<>> =>
       \E k \in 1..Len(intent.keywords.v) :
         includes(stringify(d), intent.keywords.v[k].v)

\* the document passes every filter whose intent field is present, the
\* location, the keywords and the serialised document compared in lower case
PassesIgnoringCase(d, intent) ==
  /\ intent.place # <<>> => includes(toLowerCase(d.location), intent.place)
  /\ intent.cuisine # <<>> =>
       \E c \in 1..Len(d.cuisines) : includes(d.cuisines[c], intent.cuisine)
  /\ intent.maxBudget # Null => d.averageCost <= intent.maxBudget.v
  /\ intent.people # Null => d.maxSeats >= intent.people.v
  /\ intent.vibe # <<>> =>
       includes(join(d.vibes \o d.amenities, <<" ">>), intent.vibe)
  /\ intent.keywords.v # <<>> =>
       \E k \in 1..Len(intent.keywords.v) :
         includes(toLowerCase(stringify(d)),
                  toLowerCase(intent.keywords.v[k].v))

\* the positions of the index documents that pass
Survivors(intent) ==
  {n \in 1..Len(restaurants_search) :
     PassesIgnoringCase(restaurants_search[n], intent)}

\* C1 as stated: every document a successful search returns satisfies every
\* present filter (location contains place, some cuisine contains cuisine,
\* averageCost <= maxBudget, maxSeats >= people, vibes and amenities text
\* contains vibe, some keyword occurs in the document), and total counts
\* every index document that satisfies all present filters.
C1_AsStated ==
  \A r \in Reqs :
    Answered(r) =>
      /\ \A j \in 1..Len(res[r].restaurants) :
           PassesLiterally(res[r].restaurants[j], res[r].intent)
      /\ res[r].total =
           Cardinality({n \in 1..Len(restaurants_search) :
                          PassesLiterally(restaurants_search[n],
                                          res[r].intent)})

\* C1 (amended): every document a successful search returns satisfies every
\* present filter, and total counts every index document that satisfies all
\* present filters, where the place is sought in the lowercased location and
\* each lowercased keyword in the lowercased JSON serialisation of the
\* document; an absent field excludes no document.
C1_FiltersHold ==
  \A r \in Reqs :
    Answered(r) =>
      /\ \A j \in 1..Len(res[r].restaurants) :
           PassesIgnoringCase(res[r].restaurants[j], res[r].intent)
      /\ res[r].total = Cardinality(Survivors(res[r].intent))

\* a cache-hit search with all six fields present that returned some but not
\* all documents, one of them with a location that is not in lower case
C1_Witness ==
  \E r \in Reqs :
    /\ Answered(r) /\ req[r].cached
    /\ res[r].intent.place # <<>> /\ res[r].intent.cuisine # <<>>
    /\ res[r].intent.vibe # <<>> /\ res[r].intent.maxBudget # Null
    /\ res[r].intent.people # Null /\ res[r].intent.keywords.v # <<>>
    /\ res[r].total > 0 /\ res[r].total < Len(restaurants_search)
    /\ \E j \in 1..Len(res[r].restaurants) :
         res[r].restaurants[j].location #
           toLowerCase(res[r].restaurants[j].location)

\* the surviving documents in index-storage order
SurvivorsInOrder(intent) ==
  LET passes(d) == PassesIgnoringCase(d, intent)
  IN SelectSeq(restaurants_search, passes)

\* C2: for every successful search, total is the number of index documents
\* that survive all filters before truncation, restaurants has length
\* min(50, total), and restaurants is the first min(50, total) surviving
\* documents in index-storage order.
C2_TotalAndCap ==
  \A r \in Reqs :
    Answered(r) =>
      /\ res[r].total = Len(SurvivorsInOrder(res[r].intent))
      /\ Len(res[r].restaurants) = Min(50, res[r].total)
      /\ res[r].restaurants =
           SubSeq(SurvivorsInOrder(res[r].intent), 1,
                  Min(50, res[r].total))

\* a cache-miss search with more than 50 survivors, the index's first document
\* not among them
C2_Witness ==
  \E r \in Reqs :
    /\ Answered(r) /\ ~req[r].cached
    /\ res[r].total > 50 /\ res[r].total < Len(restaurants_search)
    /\ Len(res[r].restaurants) = 50
    /\ res[r].restaurants[1] # restaurants_search[1]

\* the text is a JSON object literal
IsObjectText(text) ==
  \/ text = <<LBrace, RBrace>>
  \/ Len(text) = 3 /\ text[1] = LBrace /\ text[2].k = "members"
       /\ text[3] = RBrace

\* some stretch of the text is a JSON object literal
HoldsObjectText(text) ==
  \E i \in 1..Len(text) : \E j \in i..Len(text) :
    IsObjectText(SubSeq(text, i, j))

EmptyIntent ==
  [place |-> <<>>, cuisine |-> <<>>, vibe |-> <<>>, maxBudget |-> Null,
   people |-> Null, keywords |-> Arr(<<>>)]

\* the request ended because its index read rejected
StoreFailed(r) ==
  /\ req[r].pc = "done" /\ res[r].status = 500
  /\ res[r].details = "store failed"

\* C3 as stated: a request whose completion output holds no JSON object, and
\* whose index read does not fail, does not end in an error response: its
\* intent has place, cuisine and vibe empty, maxBudget and people null and
\* keywords empty, and the response lists the whole index, capped at 50.
C3_DegradesToListing ==
  \A r \in Reqs :
    ( /\ req[r].pc = "done"
      /\ req[r].rawAiText # Undefined
      /\ ~HoldsObjectText(req[r].rawAiText.v)
      /\ ~StoreFailed(r) ) =>
      /\ res[r].status = 200
      /\ res[r].intent = EmptyIntent
      /\ res[r].total = Len(restaurants_search)
      /\ res[r].restaurants =
           SubSeq(restaurants_search, 1, Min(50, Len(restaurants_search)))

\* the intent cache before any request has run
NothingCached == DOMAIN AI_QUERY_CACHE = {}

\* request r went down the miss path and stored its intent
Stored(r) ==
  /\ req[r].pc \in {"missRead", "done"}
  /\ ~req[r].cached
  /\ req[r].intent # NoIntent

\* the intent cache is empty but for the intent of request r under its key
HoldsOnlyIntentOf(r) ==
  /\ DOMAIN AI_QUERY_CACHE = {req[r].normalizedQuery}
  /\ AI_QUERY_CACHE[req[r].normalizedQuery] = req[r].intent

\* the intent cache as the first request left it is the intent cache now
AsFirstRequestLeftIt ==
  IF Stored(1) THEN HoldsOnlyIntentOf(1) ELSE NothingCached

\* C5 as stated: when the index read of a request fails the request is
\* answered with a 500 and the intent cache after the request equals the
\* intent cache before it, on the miss path and on the hit path.  The first
\* request starts from the empty cache, its repeat from the cache the first
\* request left.
C5_AsStated ==
  /\ (StoreFailed(1) /\ req[2].pc = "idle") =>
       res[1].status = 500 /\ NothingCached
  /\ StoreFailed(2) => res[2].status = 500 /\ AsFirstRequestLeftIt

\* C5 (amended): when the index read of a request fails the request is
\* answered with a 500; on the hit path the intent cache after the request
\* equals the intent cache before it; on the miss path the intent cache after
\* the request is the cache before it with the request's intent stored under
\* its normalized query.
C5_StoreFailureKeepsIntent ==
  /\ (StoreFailed(1) /\ req[2].pc = "idle") =>
       res[1].status = 500 /\ HoldsOnlyIntentOf(1)
  /\ StoreFailed(2) =>
       /\ res[2].status = 500
       /\ IF req[2].cached THEN AsFirstRequestLeftIt ELSE HoldsOnlyIntentOf(2)

\* the index read failed for a first request on the miss path and for its
\* repeat on the hit path
C5_Witness ==
  /\ StoreFailed(1) /\ ~req[1].cached
  /\ StoreFailed(2) /\ req[2].cached
  /\ req[2].intent.place # <<>>

\* C9: two successive requests with the same query against an unchanged
\* index, the first a cache miss and the second a cache hit, both answered,
\* return the same intent, the same total and the same ordered restaurants.
C9_HitRepeatsMiss ==
  ( /\ Answered(1) /\ ~req[1].cached
    /\ Answered(2) /\ req[2].cached ) =>
    /\ res[2].intent = res[1].intent
    /\ res[2].total = res[1].total
    /\ res[2].restaurants = res[1].restaurants

\* a miss and the hit that repeats it in other letters, with a party size
\* that excludes some but not all documents
C9_Witness ==
  /\ Answered(1) /\ ~req[1].cached
  /\ Answered(2) /\ req[2].cached
  /\ req[1].query # req[2].query
  /\ res[2].intent.people # Null
  /\ res[2].total > 0 /\ res[2].total < Len(restaurants_search)

----------------------------------------------------------------------------
(* Properties of POST /ai-search under concurrent requests (Spec).         *)

\* two query texts are equal after lowercasing and trimming
SameKey(a, b) == trim(toLowerCase(a)) = trim(toLowerCase(b))

\* the step in which request r arrives with a query text that is not blank
Searches(r) ==
  /\ req[r].pc = "idle" /\ req'[r].pc # "idle"
  /\ req'[r].query.t = "string"
  /\ trim(req'[r].query.v) # <<>>

\* the step in which the completion call of request r rejects
CompletionRejects(r) ==
  /\ req[r].pc = "aiCall" /\ req'[r].pc = "done"
  /\ req'[r].rawAiText = Undefined

\* request r ended because its completion call rejected
CompletionFailed(r) ==
  /\ req[r].pc = "done" /\ res[r].status = 500
  /\ res[r].details = "completion failed"

\* no request for the query text of request f has had a completion returned
NoCompletionFor(f) ==
  \A o \in Reqs :
    (req[o].query.t = "string" /\ SameKey(req[o].query.v, req[f].query.v)) =>
      req[o].rawAiText = Undefined

\* C4: when the completion call of a request rejects, the request is answered
\* with a 500 and the intent cache is left as it was; as long as no completion
\* has returned for that query, a later request with the same query calls the
\* completion service again.
C4_FailureNotCached ==
  [][\A r \in Reqs :
       /\ CompletionRejects(r) =>
            res'[r].status = 500 /\ AI_QUERY_CACHE' = AI_QUERY_CACHE
       /\ \A f \in Reqs :
            ( /\ CompletionFailed(f) /\ NoCompletionFor(f)
              /\ Searches(r)
              /\ SameKey(req[f].query.v, req'[r].query.v) ) =>
              /\ req'[r].pc = "aiCall"
              /\ groqCalls' = groqCalls + 1]_vars

\* a request whose completion call rejected, and another with the same
\* normalized query waiting for its own completion call, nothing cached
C4_Witness ==
  \E f \in Reqs : \E r \in Reqs :
    /\ CompletionFailed(f)
    /\ req[r].pc = "aiCall"
    /\ req[r].normalizedQuery = req[f].normalizedQuery
    /\ req[r].query # req[f].query
    /\ NothingCached

\* the query is missing, empty or white space only
MissingOrBlank(query) ==
  \/ query = Undefined
  \/ query.t = "string" /\ \A i \in 1..Len(query.v) : query.v[i] \in WhiteSpace

\* C6: a request whose query is missing or blank is answered with 400 in its
\* first step: no completion call and no store read is issued for it, and
\* the intent cache and the aggregation cache are unchanged.
C6_BlankRejected ==
  [][\A r \in Reqs :
       ( /\ req[r].pc = "idle" /\ req'[r].pc # "idle"
         /\ MissingOrBlank(req'[r].query) ) =>
         /\ req'[r].pc = "done"
         /\ res'[r].status = 400
         /\ groqCalls' = groqCalls
         /\ storeReads' = storeReads
         /\ AI_QUERY_CACHE' = AI_QUERY_CACHE
         /\ RESTAURANT_CACHE' = RESTAURANT_CACHE]_vars

\* a white-space query answered with 400 while an intent is cached
C6_Witness ==
  \E r \in Reqs :
    /\ req[r].pc = "done" /\ res[r].status = 400
    /\ req[r].query = Str(<<" ", " ">>)
    /\ ~NothingCached

\* C7: for two query texts equal after lowercasing and trimming, once a
\* request for the first has stored its intent, a later request for the
\* second is a cache hit: it issues no completion call, it takes the stored
\* intent, and the answer it gives once its index read has returned and been
\* filtered carries that intent.
C7_SameKeyHits ==
  [][/\ \A a \in Reqs : \A b \in Reqs :
          ( /\ a # b /\ Stored(a) /\ Searches(b)
            /\ SameKey(req[a].query.v, req'[b].query.v) ) =>
            /\ groqCalls' = groqCalls
            /\ req'[b].pc = "hitRead"
            /\ \E k \in DOMAIN AI_QUERY_CACHE :
                 /\ SameKey(k, req[a].query.v)
                 /\ req'[b].intent = AI_QUERY_CACHE[k]
     /\ \A b \in Reqs :
          (req[b].pc = "hitRead" /\ req'[b].pc = "done"
             /\ res'[b].status = 200) =>
            res'[b].cached /\ res'[b].intent = req[b].intent]_vars

\* a cache hit answered with the intent that a request with a query in other
\* letters stored, one completion call in all
C7_Witness ==
  \E a \in Reqs : \E b \in Reqs :
    /\ Stored(a)
    /\ Answered(b) /\ req[b].cached
    /\ req[a].query # req[b].query
    /\ res[b].intent = req[a].intent
    /\ groqCalls = 1

\* C8 as stated: under any interleaving of concurrent requests, once a key's
\* value is stored in the intent cache it is never removed and never replaced
\* by a different intent.
C8_EntriesNeverChange ==
  [][\A k \in DOMAIN AI_QUERY_CACHE :
       /\ k \in DOMAIN AI_QUERY_CACHE'
       /\ AI_QUERY_CACHE'[k] = AI_QUERY_CACHE[k]]_vars

----------------------------------------------------------------------------
(* Properties of loadAllCollectionsByUserId (SpecLoad).                    *)

\* a map is cached and its age is below the five minutes of the ttl
Fresh ==
  /\ RESTAURANT_CACHE.data # Null
  /\ now - RESTAURANT_CACHE.timestamp < 300000

\* C10: a load returns the cached map with no store read exactly when a map
\* is cached and now - timestamp < TTL; when the age is TTL or more, or
\* nothing is cached, it reads every source collection and replaces the slot
\* with the new map.
C10_FreshOrReload ==
  [][\A t \in Tasks :
       /\ (task[t].pc = "idle" /\ task'[t].pc # "idle") =>
            IF Fresh
            THEN /\ task'[t].pc = "done"
                 /\ task'[t].result = RESTAURANT_CACHE.data
                 /\ storeReads' = storeReads
                 /\ RESTAURANT_CACHE' = RESTAURANT_CACHE
            ELSE /\ task'[t].pc = "reading"
                 /\ storeReads' = storeReads + Len(collections)
       /\ (task[t].pc = "reading" /\ task'[t].pc = "done") =>
            /\ task'[t].result.t = "object"
            /\ RESTAURANT_CACHE'.data = task'[t].result
            /\ RESTAURANT_CACHE'.timestamp = task[t].now]_vars

\* a load that found a cached map aged exactly the ttl and is reading the
\* source collections
C10_Witness ==
  \E t \in Tasks :
    /\ task[t].pc = "reading"
    /\ RESTAURANT_CACHE.data # Null
    /\ task[t].now - RESTAURANT_CACHE.timestamp = 300000
    /\ storeReads = 2 * Len(collections)

\* the owner a record is grouped under: its userId, else its own id
OwnerOf(d) ==
  IF "userId" \in DOMAIN d.data /\ Truthy(d.data.userId)
  THEN ToText(d.data.userId)
  ELSE d.id

\* the record as it is kept in a bucket: the id, then the fields of the data
Kept(d) ==
  [f \in {"id"} \cup DOMAIN d.data |->
     IF f \in DOMAIN d.data THEN d.data[f] ELSE Str(d.id)]

\* the map holds the record under the collection in the bucket of the owner
HoldsRecord(maps, uid, c, record) ==
  \E b \in 1..Len(maps) :
    /\ maps[b].uid = uid
    /\ c \in DOMAIN maps[b].bucket
    /\ \E n \in 1..Len(maps[b].bucket[c]) : maps[b].bucket[c][n] = record

\* C11: for every subset of source collections whose read fails during a
\* load, the load completes with a map; each failed collection contributes no
\* records, and every record of every collection that was read appears in
\* the bucket of its owner under its collection name.
C11_FailedReadsTolerated ==
  [][\A t \in Tasks :
       (task[t].pc = "reading" /\ task'[t].pc # "reading") =>
         /\ task'[t].pc = "done"
         /\ task'[t].result.t = "object"
         /\ \A b \in 1..Len(task'[t].result.v) :
              \A c \in task'[t].failed :
                c \notin DOMAIN task'[t].result.v[b].bucket
         /\ \A i \in 1..Len(collections) :
              collections[i] \notin task'[t].failed =>
                \A n \in 1..Len(store[collections[i]]) :
                  HoldsRecord(task'[t].result.v,
                              OwnerOf(store[collections[i]][n]),
                              collections[i],
                              Kept(store[collections[i]][n]))]_vars

\* a load during which the menuItems and coverimage reads failed, and that
\* returned the tables record of owner u1
C11_Witness ==
  \E t \in Tasks :
    /\ task[t].pc = "done"
    /\ task[t].failed = {"menuItems", "coverimage"}
    /\ store["menuItems"] # <<>>
    /\ HoldsRecord(task[t].result.v, <<"u", "1">>, "tables",
                   Kept(store["tables"][1]))

----------------------------------------------------------------------------
(* The index rebuild. *)

\* the bucket the aggregation maps keeps for owner uid
BucketOf(maps, uid) ==
  LET own(e) == e.uid = uid
  IN IF SelectSeq(maps, own) = <<>> THEN <<>>
     ELSE SelectSeq(maps, own)[1].bucket

\* the user records of owner uid in the aggregation: those whose id is uid
OwnUserRecords(maps, uid) ==
  LET own(u) == Get(u, "id") = Str(uid)
  IN SelectSeq(Records(BucketOf(maps, uid), "users"), own)

\* owner uid is an eligible restaurant of the aggregation: it has a user
\* record, and the role of its user record is "hotel"
Eligible(maps, uid) ==
  /\ OwnUserRecords(maps, uid) # <<>>
  /\ \A i \in 1..Len(OwnUserRecords(maps, uid)) :
       Get(OwnUserRecords(maps, uid)[i], "role")
         = Str(<<"h", "o", "t", "e", "l">>)

\* rebuild k has produced its documents
Produced(k) == build[k].pc \in {"committing", "done"}

\* C12 as stated: every document a rebuild produces is for an owner whose
\* user record in the aggregation the rebuild read has the role "hotel"; an
\* owner whose user record has the role "diner", or who has no user record,
\* has no document among them.
C12_OnlyHotels ==
  \A k \in Tasks :
    Produced(k) =>
      \A i \in 1..Len(build[k].batch) :
        Eligible(task[k].result.v, build[k].batch[i].restaurantId)

\* C13 as stated: in every execution of the server a rebuild is eventually
\* started after startup.
C13_RebuildStarts == <>(\E k \in Tasks : build[k].pc # "idle")

\* the step in which the commit of rebuild k resolves
Commits(k) == build[k].pc = "committing" /\ build'[k].pc = "done"

\* rebuild k read the source records as they are now: every read of its load
\* resolved, and the store has not changed since
ReadTheCurrentSource(k) ==
  task[k].result = Obj(buildMaps(readAll(store, {})))

\* the ids of the documents of an index
IdsOf(index) == {index[i].restaurantId : i \in 1..Len(index)}

\* C14 as stated: once a rebuild that read the source records after a change
\* has committed, the persisted index holds no document for an owner that is
\* not an eligible restaurant of those records (its role changed, or its user
\* record was removed).
C14_CommitReflectsSource ==
  [][\A k \in Tasks :
       Commits(k) /\ ReadTheCurrentSource(k) =>
         \A uid \in IdsOf(restaurants_search') :
           isIndexed(BucketOf(task[k].result.v, uid))]_vars

\* the documents of an index
DocsOf(index) == {index[i] : i \in 1..Len(index)}

\* the documents the commit of rebuild k persists
WritesOf(k) ==
  {[build[k].batch[i] EXCEPT !.updatedAt = now \div 1000] :
     i \in 1..Len(build[k].batch)}

\* the step in which the index read of search r resolves and r is answered
ReadsIndex(r) ==
  /\ req[r].pc \in {"hitRead", "missRead"}
  /\ req'[r].pc = "done"
  /\ res'[r].status = 200

\* C15: under any interleaving of rebuilds with searches, the persisted index
\* changes only by the commit of one rebuild, which persists every document
\* of its batch at once and leaves every other document as it was, so that a
\* search, which filters the index as it is when its read resolves, sees the
\* index wholly before or wholly after a commit; and the set of restaurant
\* ids in the persisted index never shrinks.
C15_CommitsAreWholeAndKeepIds ==
  [][/\ IdsOf(restaurants_search) \subseteq IdsOf(restaurants_search')
     /\ restaurants_search' # restaurants_search =>
          \E k \in Tasks :
            /\ Commits(k)
            /\ WritesOf(k) \subseteq DocsOf(restaurants_search')
            /\ DocsOf(restaurants_search') \subseteq
                 DocsOf(restaurants_search) \cup WritesOf(k)
     /\ \A r \in Reqs :
          ReadsIndex(r) =>
            /\ res'[r].total = Len(SurvivorsInOrder(req[r].intent))
            /\ res'[r].restaurants =
                 SubSeq(SurvivorsInOrder(req[r].intent), 1,
                        Min(ResultCap, res'[r].total))]_vars

\* a rebuild committed an empty batch over an index that holds documents, and
\* a search was answered with a document of the index
C15_Witness ==
  /\ \E k \in Tasks : build[k].pc = "done" /\ build[k].count = 0
  /\ restaurants_search # <<>>
  /\ \E r \in Reqs : Answered(r) /\ res[r].total >= 1

----------------------------------------------------------------------------
(* The aggregation cache under concurrent loads. *)

\* call t read the source collections itself and grouped what it read
Loaded(t) ==
  /\ task[t].pc = "done"
  /\ task[t].result = Obj(buildMaps(readAll(store, task[t].failed)))

\* C16: under any interleaving of concurrent loads, whenever the cache slot
\* holds a map, some one load produced both the map and the timestamp of the
\* slot: the timestamp is the clock value that load read, and the map is
\* exactly what that load grouped from the collections it read, not a mix of
\* the records of two loads.
C16_SlotFromOneLoad ==
  RESTAURANT_CACHE.data # Null =>
    \E t \in Tasks :
      /\ Loaded(t)
      /\ RESTAURANT_CACHE.data = task[t].result
      /\ RESTAURANT_CACHE.timestamp = task[t].now

\* two overlapping loads that both found the cache stale and read different
\* records: the one that started later wrote the slot first, the one that
\* started earlier wrote it last
C16_Witness ==
  \E a, b \in Tasks :
    /\ Loaded(a) /\ Loaded(b)
    /\ task[a].failed # task[b].failed
    /\ task[a].result # task[b].result
    /\ task[a].now < task[b].now
    /\ RESTAURANT_CACHE.data = task[a].result
    /\ RESTAURANT_CACHE.timestamp = task[a].now

----------------------------------------------------------------------------
(* buildRestaurantProfile. *)

\* the profiles built so far
Profiles ==
  UNION {{profiles[t].v[i] : i \in 1..Len(profiles[t].v)} :
           t \in {u \in Tasks : profiles[u] # Null}}

\* the user record of owner uid in the store
UserRecordOf(uid) ==
  LET own(d) == d.id = uid
  IN SelectSeq(store["users"], own)[1].data

\* the number a stored field stands for: itself, or the number its text
\* spells; 0 for a field that is absent
NumberIn(data, f) == IF f \in DOMAIN data THEN ToNumber(data[f]).v ELSE 0

\* the explicit average cost of owner uid: the averageCost field, or when that
\* is absent or zero the averagecost field
ExplicitCost(uid) ==
  IF NumberIn(UserRecordOf(uid), "averageCost") # 0
  THEN NumberIn(UserRecordOf(uid), "averageCost")
  ELSE NumberIn(UserRecordOf(uid), "averagecost")

\* the nonzero prices of the menu items of owner uid in the store
NonzeroPrices(uid) ==
  LET own(d) == OwnerOf(d) = uid /\ NumberIn(d.data, "price") # 0
      items == SelectSeq(store["menuItems"], own)
  IN [i \in 1..Len(items) |-> NumberIn(items[i].data, "price")]

\* n is an integer nearest to p / q, for q > 0
NearestTo(n, p, q) == 2 * n * q - 2 * p <= q /\ 2 * p - 2 * n * q <= q

\* the average cost is the explicit one when that is nonzero, else the mean
\* of the nonzero prices rounded to the nearest integer, else zero
CostAsDerived(p) ==
  /\ p.averageCost.t = "number"
  /\ IF ExplicitCost(p.id) # 0 THEN p.averageCost.v = ExplicitCost(p.id)
     ELSE IF NonzeroPrices(p.id) # <<>>
     THEN NearestTo(p.averageCost.v, Sum(NonzeroPrices(p.id)),
                    Len(NonzeroPrices(p.id)))
     ELSE p.averageCost.v = 0

\* neither the explicit average cost nor a menu price of owner uid is negative
NothingNegative(uid) ==
  /\ ExplicitCost(uid) >= 0
  /\ \A i \in 1..Len(NonzeroPrices(uid)) : NonzeroPrices(uid)[i] > 0

\* C17 as stated: for every bucket over integer prices the profile's
\* averageCost is >= 0, equals the explicit average-cost field when that is
\* nonzero, else the rounded mean of the nonzero menu prices, else 0.
C17_AsStated ==
  \A p \in Profiles : CostAsDerived(p) /\ p.averageCost.v >= 0

\* C17 (amended): the profile's averageCost equals the user record's explicit
\* average-cost field whenever that field is nonzero, regardless of the menu;
\* otherwise the mean of the nonzero menu prices rounded to the nearest
\* integer, and 0 when there is no nonzero price; and it is >= 0 whenever
\* neither the explicit field nor a menu price is negative.
C17_CostDerivation ==
  \A p \in Profiles :
    /\ CostAsDerived(p)
    /\ NothingNegative(p.id) => p.averageCost.v >= 0

\* a profile whose cost is the mean 12.5 of two prices rounded to 13, and
\* the store has no explicit average cost
C17_Witness ==
  \E p \in Profiles :
    /\ ExplicitCost(p.id) = 0
    /\ Len(NonzeroPrices(p.id)) = 2
    /\ Sum(NonzeroPrices(p.id)) = 25
    /\ p.averageCost = Num(13)

----------------------------------------------------------------------------
(* The image of an owner. *)

\* the URLs of the records of an image collection that belong to owner uid,
\* a record belonging to the owner it names, else to the owner whose id it
\* is stored under
UrlsOf(uid, name, field) ==
  LET own(d) == OwnerOf(d) = uid
      recs == SelectSeq(store[name], own)
  IN [i \in 1..Len(recs) |-> recs[i].data[field].v]

\* the URLs of the records that name owner uid in their userId
UrlsNaming(uid, name, field) ==
  LET own(d) == Get(d.data, "userId") = Str(uid)
      recs == SelectSeq(store[name], own)
  IN [i \in 1..Len(recs) |-> recs[i].data[field].v]

\* the URLs of the image records of the owners other than uid
UrlsOfOthers(uid) ==
  {d.data["coverImageUrl"].v :
     d \in {e \in DocsOf(store["coverimage"]) : OwnerOf(e) # uid}}
  \cup
  {d.data["logoImageUrl"].v :
     d \in {e \in DocsOf(store["logoimage"]) : OwnerOf(e) # uid}}

\* the first cover image, else the first logo image, else the empty text
CoverElseLogo(covers, logos) ==
  IF covers # <<>> THEN covers[1]
  ELSE IF logos # <<>> THEN logos[1] ELSE <<>>

\* the search documents the rebuilds have produced
ProducedDocs ==
  UNION {DocsOf(build[k].batch) : k \in {j \in Tasks : Produced(j)}}

----------------------------------------------------------------------------
(* The cuisine filter. *)

\* the text ends with the word of the given characters after a space
EndsWithWord(s, word) ==
  /\ Len(s) > Len(word) + 1
  /\ SubSeq(s, Len(s) - Len(word), Len(s)) = <<" ">> \o word

\* a cuisine of the form "X food" or "X cuisine" without that word: X
WithoutFoodOrCuisine(s) ==
  IF EndsWithWord(s, <<"f", "o", "o", "d">>)
  THEN SubSeq(s, 1, Len(s) - 5)
  ELSE IF EndsWithWord(s, <<"c", "u", "i", "s", "i", "n", "e">>)
  THEN SubSeq(s, 1, Len(s) - 8)
  ELSE s

\* C19 as stated: for an intent cuisine of the form "X food" or "X cuisine",
\* a document whose cuisine list contains "X" passes the cuisine filter: a
\* successful search whose intent holds such a cuisine counts every document
\* that passes the filters with X as the cuisine.
C19_FoodAndCuisineStripped ==
  \A r \in Reqs :
    Answered(r) /\ res[r].intent.cuisine # <<>> =>
      res[r].total =
        Len(SurvivorsInOrder(
              [res[r].intent EXCEPT !.cuisine = WithoutFoodOrCuisine(@)]))

----------------------------------------------------------------------------
(* The keywords of an intent. *)

\* the keywords member of the completion output of request r
GivenKeywords(r) == Prop(safeParseJSON(req[r].rawAiText), "keywords")

\* request r took the miss path and derived an intent from a completion
Derived(r) ==
  /\ req[r].pc \in {"missRead", "done"}
  /\ ~req[r].cached
  /\ req[r].intent # NoIntent

----------------------------------------------------------------------------
(* The users fold of the loader. *)

\* the step in which the reads of load t settle and the load returns
Returns(t) == task[t].pc = "reading" /\ task'[t].pc = "done"

\* C21: after every load in which the users collection is read, for every
\* user record read the bucket keyed by the record's own id exists and its
\* users entry holds that record, also when the record carries a userId
\* different from its own id.
C21_EveryUserUnderOwnId ==
  [][\A t \in Tasks :
       Returns(t) /\ "users" \notin task'[t].failed =>
         \A n \in 1..Len(store["users"]) :
           HoldsRecord(task'[t].result.v, store["users"][n].id, "users",
                       Kept(store["users"][n]))]_vars

\* a load read a user record that names another owner in its userId, and
\* the map it returned holds the record under both ids
C21_Witness ==
  \E t \in Tasks :
    /\ Loaded(t) /\ task[t].failed = {}
    /\ \E n \in 1..Len(store["users"]) :
         /\ OwnerOf(store["users"][n]) # store["users"][n].id
         /\ HoldsRecord(task[t].result.v, store["users"][n].id, "users",
                        Kept(store["users"][n]))
         /\ HoldsRecord(task[t].result.v, OwnerOf(store["users"][n]),
                        "users", Kept(store["users"][n]))

----------------------------------------------------------------------------
(* The search document against the profile. *)

\* C22 as stated: for every owner bucket that is indexed, the search
\* document's averageCost and image equal the averageCost and image that
\* buildRestaurantProfile derives for the same owner id and bucket.
C22_DocProjectsProfile ==
  \A k \in Tasks :
    Produced(k) /\ profiles[k] # Null =>
      \A i \in 1..Len(build[k].batch) :
        \A j \in 1..Len(profiles[k].v) :
          profiles[k].v[j].id = build[k].batch[i].restaurantId =>
            /\ build[k].batch[i].averageCost = profiles[k].v[j].averageCost.v
            /\ build[k].batch[i].image = profiles[k].v[j].image.v

\* C23 as stated: in every map a load produces, the first users entry of
\* each bucket is the user record whose own id is the bucket's owner id.
C23_FirstUserIsOwner ==
  \A t \in Tasks :
    task[t].result # Null =>
      \A b \in 1..Len(task[t].result.v) :
        Records(task[t].result.v[b].bucket, "users") # <<>> =>
          Get(Records(task[t].result.v[b].bucket, "users")[1], "id")
            = Str(task[t].result.v[b].uid)

\* C24 as stated: under any interleaving of concurrent loads the timestamp
\* of the aggregation cache never decreases.
C24_TimestampNeverDecreases ==
  [][RESTAURANT_CACHE'.timestamp >= RESTAURANT_CACHE.timestamp]_vars

----------------------------------------------------------------------------
(* What a search request changes. *)

\* the intent cache is as it was at every key but this one
SameButAt(key) ==
  /\ DOMAIN AI_QUERY_CACHE \subseteq DOMAIN AI_QUERY_CACHE' \cup {key}
  /\ DOMAIN AI_QUERY_CACHE' \subseteq DOMAIN AI_QUERY_CACHE \cup {key}
  /\ \A k \in DOMAIN AI_QUERY_CACHE' \ {key} :
       AI_QUERY_CACHE'[k] = AI_QUERY_CACHE[k]

\* C25: a step of a search request, whatever its outcome (400, 500, cache
\* hit or cache miss), leaves the persisted index, the aggregation cache and
\* the source collections unchanged, and changes the intent cache at most
\* at the entry of the request's own normalized query text.
C25_SearchChangesOwnEntryOnly ==
  [][\A r \in Reqs :
       req'[r] # req[r] =>
         /\ restaurants_search' = restaurants_search
         /\ RESTAURANT_CACHE' = RESTAURANT_CACHE
         /\ store' = store
         /\ IF req'[r].query.t = "string"
            THEN SameButAt(normalizedQueryOf(req'[r].query))
            ELSE AI_QUERY_CACHE' = AI_QUERY_CACHE]_vars

\* two requests for different queries took the miss path, and the intent
\* cache holds for each of them the entry it stored
C25_Witness ==
  /\ Cardinality(DOMAIN AI_QUERY_CACHE) = 2
  /\ \A r \in Reqs :
       /\ req[r].pc \in {"missRead", "done"}
       /\ ~req[r].cached
       /\ req[r].normalizedQuery \in DOMAIN AI_QUERY_CACHE
       /\ AI_QUERY_CACHE[req[r].normalizedQuery] = req[r].intent

----------------------------------------------------------------------------
(* The aggregation-backed handler of src/unnamed/part_001.  Its helpers,   *)
(* normalize, safeParseJSON, extractPeopleFromText, buildRestaurantProfile *)
(* and the grouping of loadAllCollectionsByUserId, are those of index.js   *)
(* line for line; its loader reads two collections fewer.                  *)

\* the collections its loader reads: no coverimage, no logoimage
protoCollections ==
  <<"users", "restaurantcuisine", "amenities", "mealtimes", "offers",
    "tables", "experiences", "menuItems", "openingHours", "reviews",
    "sections", "extrareserves">>

\* db.collection(col).get().catch(() => ({ docs: [] })) for every collection
\* of the list; a collection off the list contributes no record
protoReadAll(source, failed) ==
  [i \in 1..Len(collections) |->
     IF /\ \E j \in 1..Len(protoCollections) :
             protoCollections[j] = collections[i]
        /\ collections[i] \notin failed
     THEN source[collections[i]]
     ELSE <<>>]

\* the intent of its miss path: as deriveIntent, the keywords as given
protoIntent(intent, query) ==
  [deriveIntent(intent, query) EXCEPT
     !.keywords = Or(Prop(intent, "keywords"), Arr(<<>>))]

\* the property names of the sample records, as text and in the order
\* JSON.stringify meets them
KeyOrder ==
  <<"id", "role", "restaurantName", "location", "userId", "cuisines",
    "numSeats", "name", "price", "from", "to", "text", "coverImageUrl">>

KeyText ==
  [id |-> <<"i", "d">>,
   role |-> <<"r", "o", "l", "e">>,
   restaurantName |->
     <<"r", "e", "s", "t", "a", "u", "r", "a", "n", "t", "N", "a", "m", "e">>,
   location |-> <<"l", "o", "c", "a", "t", "i", "o", "n">>,
   userId |-> <<"u", "s", "e", "r", "I", "d">>,
   cuisines |-> <<"c", "u", "i", "s", "i", "n", "e", "s">>,
   numSeats |-> <<"n", "u", "m", "S", "e", "a", "t", "s">>,
   name |-> <<"n", "a", "m", "e">>,
   price |-> <<"p", "r", "i", "c", "e">>,
   from |-> <<"f", "r", "o", "m">>,
   to |-> <<"t", "o">>,
   text |-> <<"t", "e", "x", "t">>,
   coverImageUrl |->
     <<"c", "o", "v", "e", "r", "I", "m", "a", "g", "e", "U", "r", "l">>,
   averageCost |->
     <<"a", "v", "e", "r", "a", "g", "e", "C", "o", "s", "t">>,
   offers |-> <<"o", "f", "f", "e", "r", "s">>,
   image |-> <<"i", "m", "a", "g", "e">>,
   tables |-> <<"t", "a", "b", "l", "e", "s">>,
   extrareserves |->
     <<"e", "x", "t", "r", "a", "r", "e", "s", "e", "r", "v", "e", "s">>,
   raw |-> <<"r", "a", "w">>,
   userDoc |-> <<"u", "s", "e", "r", "D", "o", "c">>]

\* "name":value
jsonMember(name, value) == Quote(KeyText[name]) \o <<":">> \o value

\* [a,b,...]
jsonArray(texts) == <<"[">> \o join(texts, <<",">>) \o <<"]">>

\* {a,b,...}
jsonObject(members) == <<"{">> \o join(members, <<",">>) \o <<"}">>

RECURSIVE jsonOf(_)
\* JSON.stringify(x): NaN is null, an undefined array element is null, an
\* undefined property is left out
jsonOf(x) ==
  CASE x.t = "string" -> Quote(x.v)
    [] x.t = "number" -> IntToText(x.v)
    [] x.t = "array" ->
         jsonArray([i \in 1..Len(x.v) |->
                      IF x.v[i].t = "undefined" THEN <<"n", "u", "l", "l">>
                      ELSE jsonOf(x.v[i])])
    [] x.t = "object" ->
         LET has(k) == IF k \in DOMAIN x.v THEN x.v[k].t # "undefined"
                       ELSE FALSE
             keys == SelectSeq(KeyOrder, has)
         IN jsonObject([i \in 1..Len(keys) |->
                          jsonMember(keys[i], jsonOf(x.v[keys[i]]))])
    [] OTHER -> <<"n", "u", "l", "l">>

\* JSON.stringify of the records of a bucket
jsonOfRecords(records) ==
  jsonArray([i \in 1..Len(records) |-> jsonOf(Obj(records[i]))])

\* JSON.stringify(p) of a profile, its properties in the order
\* buildRestaurantProfile lists them
jsonOfProfile(p) ==
  jsonObject(
    <<jsonMember("id", Quote(p.id)),
      jsonMember("restaurantName", jsonOf(p.restaurantName)),
      jsonMember("location", jsonOf(p.location)),
      jsonMember("cuisines", jsonOf(p.cuisines)),
      jsonMember("averageCost", jsonOf(p.averageCost)),
      jsonMember("offers", jsonOfRecords(p.offers)),
      jsonMember("image", jsonOf(p.image)),
      jsonMember("tables", jsonOfRecords(p.tables)),
      jsonMember("extrareserves", jsonOfRecords(p.extrareserves)),
      jsonMember("raw",
        jsonObject(
          <<jsonMember("userDoc", jsonOf(Obj(p.raw.userDoc))),
            jsonMember("tables", jsonOfRecords(p.raw.tables)),
            jsonMember("extrareserves",
                       jsonOfRecords(p.raw.extrareserves))>>))>>)

\* .filter((p) => p.raw?.userDoc?.role === "hotel")
isHotel(p) == Get(p.raw.userDoc, "role") = Str(<<"h", "o", "t", "e", "l">>)

\* Object.entries(byUser).map(buildRestaurantProfile).filter(role is hotel)
hotelProfiles(byUser) == SelectSeq(profilesOf(byUser), isHotel)

RECURSIVE someKeyword(_, _)
\* keywords.some((k) => blob.includes(k.toLowerCase())) of an array: "throw"
\* when an element that is no string is reached before a match
someKeyword(blob, keywords) ==
  IF keywords = <<>> THEN "drop"
  ELSE IF Head(keywords).t # "string" THEN "throw"
  ELSE IF includes(blob, toLowerCase(Head(keywords).v)) THEN "keep"
  ELSE someKeyword(blob, Tail(keywords))

\* the text the vibe is looked up in: [...[], ...[], p.cuisines || [],
\* p.restaurantName, p.location].join(" ").toLowerCase(); a profile has
\* neither amenities nor experiences
vibeText(p) ==
  toLowerCase(ToText(p.cuisines) \o <<" ">> \o ToText(p.restaurantName)
              \o <<" ">> \o ToText(p.location))

\* what the filters of the hit path do with one hotel profile: "keep" it,
\* "drop" it or "throw" a TypeError
protoHitOutcome(p, intent) ==
  IF intent.place # <<>> /\ ~includes(normalize(p.location), intent.place)
  THEN "drop"
  ELSE IF intent.cuisine # <<>> /\ p.cuisines.t # "array"
  THEN \* (p.cuisines || []).some is not a function
       "throw"
  ELSE IF /\ intent.cuisine # <<>>
          /\ ~\E i \in 1..Len(p.cuisines.v) :
                 includes(normalize(p.cuisines.v[i]), intent.cuisine)
  THEN "drop"
  ELSE IF /\ Truthy(intent.maxBudget)
          /\ ~(IF p.averageCost.t = "number"
               THEN p.averageCost.v <= intent.maxBudget.v ELSE FALSE)
  THEN "drop"
  ELSE IF intent.vibe # <<>> /\ ~includes(vibeText(p), intent.vibe)
  THEN "drop"
  ELSE IF intent.keywords.t = "string" /\ intent.keywords.v # <<>>
  THEN \* keywords.some is not a function
       "throw"
  ELSE IF intent.keywords.t = "array" /\ intent.keywords.v # <<>>
  THEN someKeyword(toLowerCase(jsonOfProfile(p)), intent.keywords.v)
  ELSE "keep"

\* a filter of the hit path threw
protoHitThrows(candidates, intent) ==
  \E i \in 1..Len(candidates) :
    protoHitOutcome(candidates[i], intent) = "throw"

\* the hotel profiles the filters of the hit path keep
protoHitFilters(candidates, intent) ==
  LET kept(p) == protoHitOutcome(p, intent) = "keep"
  IN SelectSeq(candidates, kept)

\* its loader called by the handler of request r: lines 83-112, the clock
\* read, the cached map returned if fresh, else one read per collection
protoLoadCall(r) ==
  IF cacheIsFresh(RESTAURANT_CACHE, now)
  THEN /\ task' = [task EXCEPT ![r] =
            [pc |-> "done", now |-> now, failed |-> {},
             result |-> RESTAURANT_CACHE.data]]
       /\ UNCHANGED storeReads
  ELSE /\ task' = [task EXCEPT ![r] =
            [pc |-> "reading", now |-> now, failed |-> {}, result |-> Null]]
       /\ storeReads' = storeReads + Len(protoCollections)

\* lines 200-226 and 252-281: validation, cache lookup, then either the hit
\* path up to its loader call or the miss path up to the completion call
ProtoArrive(r, queries) ==
  /\ req[r].pc = "idle"
  /\ \E query \in queries :
       IF queryIsBlank(query)
       THEN /\ req' = [req EXCEPT ![r].pc = "done", ![r].query = query]
            /\ res' = [res EXCEPT ![r] = badRequest]
            /\ UNCHANGED <<groqCalls, storeReads, task>>
       ELSE IF query.t # "string"
       THEN \* query.toLowerCase is not a function
            /\ req' = [req EXCEPT ![r].pc = "done", ![r].query = query]
            /\ res' = [res EXCEPT ![r] = serverError("TypeError")]
            /\ UNCHANGED <<groqCalls, storeReads, task>>
       ELSE IF normalizedQueryOf(query) \in DOMAIN AI_QUERY_CACHE
       THEN /\ req' = [req EXCEPT ![r] =
                 [pc |-> "hitLoad", query |-> query,
                  normalizedQuery |-> normalizedQueryOf(query),
                  cached |-> TRUE, rawAiText |-> Undefined,
                  intent |-> AI_QUERY_CACHE[normalizedQueryOf(query)]]]
            /\ protoLoadCall(r)
            /\ UNCHANGED <<res, groqCalls>>
       ELSE /\ req' = [req EXCEPT ![r] =
                 [pc |-> "aiCall", query |-> query,
                  normalizedQuery |-> normalizedQueryOf(query),
                  cached |-> FALSE, rawAiText |-> Undefined,
                  intent |-> NoIntent]]
            /\ groqCalls' = groqCalls + 1
            /\ UNCHANGED <<res, storeReads, task>>
  /\ UNCHANGED <<build, AI_QUERY_CACHE, RESTAURANT_CACHE, restaurants_search,
                 store, profiles, now>>

\* lines 283-339: the completion resolved; parse, normalize, store the intent
\* in the cache, call the loader
ProtoCompletionReturns(r, contents) ==
  /\ req[r].pc = "aiCall"
  /\ \E content \in contents :
       LET rawAiText == Or(content, Str(<<>>))
           intent == safeParseJSON(rawAiText)
       IN IF ReadThrows(intent)
          THEN \* Cannot read properties of null (reading 'place')
               /\ req' = [req EXCEPT ![r].pc = "done",
                                     ![r].rawAiText = rawAiText]
               /\ res' = [res EXCEPT ![r] = serverError("TypeError")]
               /\ UNCHANGED <<AI_QUERY_CACHE, storeReads, task>>
          ELSE /\ AI_QUERY_CACHE' =
                    cacheSet(AI_QUERY_CACHE, req[r].normalizedQuery,
                             protoIntent(intent, req[r].query.v))
               /\ req' = [req EXCEPT ![r].pc = "missLoad",
                                     ![r].rawAiText = rawAiText,
                                     ![r].intent =
                                       protoIntent(intent, req[r].query.v)]
               /\ protoLoadCall(r)
               /\ UNCHANGED res
  /\ UNCHANGED <<build, RESTAURANT_CACHE, restaurants_search, store, profiles,
                 now, groqCalls>>

\* lines 278-281 and 420-423: the completion rejected
ProtoCompletionFails(r) ==
  /\ req[r].pc = "aiCall"
  /\ Finish(r, serverError("completion failed"))
  /\ UNCHANGED <<build, AI_QUERY_CACHE, RESTAURANT_CACHE, restaurants_search,
                 store, profiles, now, task, groqCalls, storeReads>>

\* lines 112-144: the reads of the loader settled, none of them rejecting the
\* call; group, replace the cache slot, return
ProtoLoadResume(r, failSets) ==
  /\ task[r].pc = "reading"
  /\ \E failed \in failSets :
       LET maps == Obj(buildMaps(protoReadAll(store, failed)))
       IN /\ RESTAURANT_CACHE' =
               [data |-> maps, timestamp |-> task[r].now,
                ttl |-> RESTAURANT_CACHE.ttl]
          /\ task' = [task EXCEPT ![r].pc = "done", ![r].failed = failed,
                                   ![r].result = maps]
  /\ UNCHANGED <<build, AI_QUERY_CACHE, restaurants_search, store, profiles,
                 now, req, res, groqCalls, storeReads>>

\* lines 223-247: the loader returned to the hit path; build the profiles,
\* keep the hotels, filter and respond
ProtoHitLoadReturns(r) ==
  /\ req[r].pc = "hitLoad"
  /\ task[r].pc = "done"
  /\ LET candidates == hotelProfiles(task[r].result.v)
     IN IF protoHitThrows(candidates, req[r].intent)
        THEN Finish(r, serverError("TypeError"))
        ELSE Finish(r, hitResponse(req[r].intent,
                                   protoHitFilters(candidates,
                                                   req[r].intent)))
  /\ UNCHANGED <<build, AI_QUERY_CACHE, RESTAURANT_CACHE, restaurants_search,
                 store, profiles, now, task, groqCalls, storeReads>>

\* lines 339-344 and 420-423: the loader returned to the miss path.  The
\* statement let candidates = Object.entries(byUser).map(..) ends before
\* console.log(..), and .filter(..) of the next line is applied to what
\* console.log returns, undefined: a TypeError whatever the map holds, so
\* the filters and the response of lines 346-418 are never reached.
ProtoMissLoadReturns(r) ==
  /\ req[r].pc = "missLoad"
  /\ task[r].pc = "done"
  /\ Finish(r, serverError("TypeError"))
  /\ UNCHANGED <<build, AI_QUERY_CACHE, RESTAURANT_CACHE, restaurants_search,
                 store, profiles, now, task, groqCalls, storeReads>>

\* request bodies: a text, the same text in another case, another text, an
\* empty one and a number
ProtoQueries ==
  {Str(<<"K", "i">>), Str(<<" ", "k", "I", "\t">>), Str(<<"W", "e">>),
   Str(<<>>), Num(7)}

\* completion outputs: object literals, prose and the literal null
ProtoCompletions ==
  {ObjectText(m) : m \in {mTemplate, mPlace, mKeywords, mKeywordText, mAll}}
  \cup {Str(<<Prose>>), Str(<<Literal(Null)>>)}

ProtoStores == {StoreA, StoreB}

\* the reads of its loader that reject
ProtoFailSets == {{}, {"users"}}

InitProto == InitWith({<<>>}, ProtoStores)

NextProto ==
  \E r \in Reqs :
    \/ ArrivesNext(r) /\ ProtoArrive(r, ProtoQueries)
    \/ ProtoCompletionReturns(r, ProtoCompletions)
    \/ ProtoCompletionFails(r)
    \/ ProtoLoadResume(r, ProtoFailSets)
    \/ ProtoHitLoadReturns(r)
    \/ ProtoMissLoadReturns(r)

\* the prototype server under concurrent requests
SpecProto == InitProto /\ [][NextProto]_vars

----------------------------------------------------------------------------
(* C26 *)

\* request r found no cached intent, its completion returned an object and
\* its loader call returned a map
MissServed(r) ==
  /\ req[r].pc = "done"
  /\ ~req[r].cached
  /\ req[r].intent # NoIntent
  /\ task[r].pc = "done"

\* request s was answered from the intent request r cached, over the same map
RepeatOf(s, r) ==
  /\ req[s].pc = "done"
  /\ req[s].cached
  /\ req[s].normalizedQuery = req[r].normalizedQuery
  /\ req[s].intent = req[r].intent
  /\ task[s].result = task[r].result

\* C26: in the aggregation-backed handler a request that found no cached
\* intent, whose completion and whose load succeeded, is answered with
\* success and with profiles of hotels only, and a repeat of it answered from
\* the cached intent over the same map carries the same total and the same
\* restaurants.
C26_MissAnswersAsItsRepeat ==
  \A r \in Reqs :
    MissServed(r) =>
      /\ res[r].status = 200
      /\ res[r].success
      /\ \A i \in 1..Len(res[r].restaurants) : isHotel(res[r].restaurants[i])
      /\ \A s \in Reqs :
           RepeatOf(s, r) /\ res[s].status = 200 =>
             /\ res[s].total = res[r].total
             /\ res[s].restaurants = res[r].restaurants

====
